---------------------------- MODULE Spec2Model ----------------------------
(***************************************************************************)
(* x402 payment protocol: the verifier (backend/verification.py), the      *)
(* settler (backend/settlement.py), the facilitator's HTTP surface         *)
(* (backend/facilitator_server.py) and the resource server's payment       *)
(* middleware (backend/resource_server.py), over a token contract that     *)
(* implements EIP-3009 and a JSON-RPC node.                                *)
(***************************************************************************)
EXTENDS Integers, Sequences, FiniteSets, TLC

(***************************************************************************)
(* Wire values.                                                            *)
(*  - A decimal string is [num, n, pad]: num says whether int() parses it, *)
(*    n is its value and pad its count of leading zeros, so that "010000"  *)
(*    and "10000" are different strings with the same int().               *)
(*  - An address is [id, form]: the 20 bytes and how the hex is written    *)
(*    ("checksum", "lower", "miscased" for mixed case that is not the      *)
(*    checksum's, or "bad" for a string that is no address).               *)
(***************************************************************************)
None == [kind |-> "None"]

Dec(k) == [num |-> TRUE, n |-> k, pad |-> 0]
Padded(k) == [num |-> TRUE, n |-> k, pad |-> 1]
NotANumber == [num |-> FALSE, n |-> 0, pad |-> 0]

Addr(i, f) == [id |-> i, form |-> f]

\* protocol.py: class PaymentScheme, EXACT = "exact"
EXACT == "exact"
\* protocol.py: X402_VERSION = 1
X402_VERSION == 1

\* resource_server.py: TOKEN_DECIMALS default, CHAIN_ID default
TOKEN_DECIMALS == 6
CHAIN_ID == 84532

(***************************************************************************)
(* eth_utils.to_checksum_address as the verifier and the settler use it:   *)
(* any well-formed hex address, whatever its case, becomes the checksummed *)
(* form; anything else raises ValueError.                                  *)
(***************************************************************************)
IsAddress(a) == a.form # "bad"
to_checksum_address(a) == Addr(a.id, "checksum")

\* int(network.split(":")[-1]) of verification.py:174 and client.py:166:
\* -1 stands for the ValueError of a suffix that is no integer.
ParseChainId(network) ==
    CASE network = "eip155:84532" -> 84532
      [] network = "eip155:1" -> 1
      [] OTHER -> -1

\* f"eip155:{CHAIN_ID}" of resource_server.py:109
Eip155(chainId) ==
    CASE chainId = 84532 -> "eip155:84532"
      [] chainId = 1 -> "eip155:1"

\* the typed data with every address written out as it was given
TypedDataVerbatim(name, version, chainId, verifyingContract, from, to, value, validAfter, validBefore, nonce) ==
    [name |-> name, version |-> version, chainId |-> chainId,
     verifyingContract |-> verifyingContract,
     from |-> from, to |-> to, value |-> value,
     validAfter |-> validAfter, validBefore |-> validBefore, nonce |-> nonce]

(***************************************************************************)
(* EIP-712.  encode_typed_data hashes the domain and the message; the      *)
(* digest is modelled by the tuple of the values that are hashed, in their *)
(* canonical form: an address by its 20 bytes (case does not enter the     *)
(* encoding), a uint256 by its integer value, strings and bytes32 verbatim.*)
(***************************************************************************)
TypedDataDigest(name, version, chainId, verifyingContract, from, to, value, validAfter, validBefore, nonce) ==
    [name |-> name, version |-> version, chainId |-> chainId,
     verifyingContract |-> verifyingContract.id,
     from |-> from.id, to |-> to.id, value |-> value,
     validAfter |-> validAfter, validBefore |-> validBefore, nonce |-> nonce]

(***************************************************************************)
(* A signature (r, s) is modelled by what it was made from: the signer and *)
(* the digest signed ("over"); the parity bit of every signature made here *)
(* is 0, so that its v is 27.  to_standard_v is eth_account's reading of   *)
(* the last signature byte: -1 stands for its ValueError.                  *)
(***************************************************************************)
Sig(signer, digest) == [signer |-> signer, over |-> digest]

to_standard_v(v) ==
    IF v \in {0, 1} THEN v
    ELSE IF v \in {27, 28} THEN v - 27
    ELSE IF v >= 35 /\ v <= 255 THEN (v - 35) % 2
    ELSE -1

\* Account.recover_message(encoded_data, signature = r || s || v): the signer
\* when the digest is the one signed and v has the signature's parity, some
\* unrelated address ("garbage") otherwise.
GarbageId == "garbage"
recover_message(digest, rs, v) ==
    IF rs.over = digest /\ to_standard_v(v) = 0 THEN rs.signer ELSE GarbageId

(***************************************************************************)
(* The verifier.  A result is [valid, reason]; a reason is [msg, a, b]     *)
(* with msg the fixed part of the message and a, b what is formatted into  *)
(* it.                                                                     *)
(***************************************************************************)
Ok == [valid |-> TRUE, reason |-> None]
\* an exception that leaves the function instead of a result
Raised == [kind |-> "Raised"]
Invalid(msg, a, b) == [valid |-> FALSE, reason |-> [kind |-> "Reason", msg |-> msg, a |-> a, b |-> b]]

\* eth_abi's address encoder takes lower case, upper case and correctly
\* checksummed hex, and raises on any other mixed case
Encodable(a) == a.form \in {"checksum", "lower"}

\* variant: a window longer than maxTimeoutSeconds gives another digest
VerifierDigestWithinTimeout(p, req) ==
    TypedDataDigest(IF p.validBefore.n - p.validAfter.n > req.maxTimeoutSeconds
                    THEN "" ELSE req.extra.name,
                    req.extra.version, ParseChainId(req.network), req.asset,
                    p.from, p.to, p.value.n, p.validAfter.n, p.validBefore.n, p.nonce)

\* verification.py:178-222: the digest the verifier rebuilds, from the
\* payload's strings as they came and the requirements' asset as it came
VerifierDigest(p, req) ==
    TypedDataDigest(req.extra.name, req.extra.version, ParseChainId(req.network), req.asset,
                    p.from, p.to, p.value.n, p.validAfter.n, p.validBefore.n, p.nonce)

\* client.py:153-220: the digest the client signs, from the requirements,
\* its own address and the window it chose, addresses checksummed
ClientDigest(req, account, valid_after, valid_before, nonce) ==
    TypedDataDigest(req.extra.name, req.extra.version, ParseChainId(req.network),
                    to_checksum_address(req.asset), to_checksum_address(account),
                    to_checksum_address(req.payTo), req.maxAmountRequired.n,
                    valid_after, valid_before, nonce)

\* verification.py:161-247
verify_eip3009_signature(p, req, from_address) ==
    IF req.extra = None
    THEN Invalid("Missing EIP-712 domain parameters in extra", 0, 0)
    ELSE IF req.extra.name = "" \/ req.extra.version = ""
    THEN Invalid("Missing name or version in extra", 0, 0)
    ELSE IF ParseChainId(req.network) < 0
    THEN Invalid("Invalid network format: ", req.network, 0)
    ELSE IF ~ Encodable(req.asset) \/ ~ Encodable(p.from) \/ ~ Encodable(p.to)
            \/ ~ p.value.num \/ ~ p.validAfter.num \/ ~ p.validBefore.num
            \/ p.value.n < 0 \/ p.validAfter.n < 0 \/ p.validBefore.n < 0
            \/ p.nonce.len > 32
            \/ to_standard_v(p.v) < 0
    THEN Invalid("Signature verification error: ", 0, 0)
    ELSE LET digest == VerifierDigest(p, req)
             recovered == recover_message(digest, p.rs, p.v)
         IN  IF recovered # from_address.id
             THEN Invalid("Signature verification failed: recovered , expected ",
                          recovered, from_address.id)
             ELSE Ok


(***************************************************************************)
(* Variants of single checks, each wrong in one way.  The properties at    *)
(* the end of the module are also run with a check replaced by its         *)
(* variant, to see that they depend on it.                                 *)
(***************************************************************************)
\* no recipient binding at all
recipient_unchecked(to_address, required_to_address) == FALSE

\* at most the required amount: over-payment passes
amount_underpaid_only(value, maxAmountRequired) == value.n < maxAmountRequired.n

\* a window that excludes validBefore itself
expired_exclusive(current_time, valid_before) == current_time >= valid_before

\* verification.py:111, the recipient binding, on checksummed addresses
recipient_mismatch(to_address, required_to_address) ==
    to_address # required_to_address

\* verification.py:115, the exact amount: the two wire strings are compared
amount_mismatch(value, maxAmountRequired) ==
    value # maxAmountRequired

\* verification.py:123
not_yet_valid(current_time, valid_after) == current_time < valid_after

\* verification.py:126
expired(current_time, valid_before) == current_time > valid_before

\* variant: no except clause around the exact-scheme checks
exact_scheme_raises == Raised

\* verification.py:140-142: the except clause of _verify_exact_scheme
exact_scheme_error == Invalid("Exact scheme verification error: ", 0, 0)

\* verification.py:98-142.  chain is what web3.eth.get_block('latest') gives:
\* [up, time], up = FALSE when the RPC call raises.
verify_exact_scheme(h, req, chain) ==
    LET p == h.payload IN
    IF ~ h.inner
    THEN exact_scheme_error
    ELSE IF ~ IsAddress(p.from) \/ ~ IsAddress(p.to) \/ ~ IsAddress(req.payTo)
    THEN Invalid("Invalid address format: ", 0, 0)
    ELSE IF recipient_mismatch(to_checksum_address(p.to), to_checksum_address(req.payTo))
    THEN Invalid("Recipient mismatch: expected , got ",
                 to_checksum_address(req.payTo), to_checksum_address(p.to))
    ELSE IF amount_mismatch(p.value, req.maxAmountRequired)
    THEN Invalid("Amount mismatch: expected , got ", req.maxAmountRequired, p.value)
    ELSE IF ~ chain.up \/ ~ p.validAfter.num \/ ~ p.validBefore.num
    THEN exact_scheme_error
    ELSE IF not_yet_valid(chain.time, p.validAfter.n)
    THEN Invalid("Payment not yet valid: current time  < validAfter ",
                 chain.time, p.validAfter.n)
    ELSE IF expired(chain.time, p.validBefore.n)
    THEN Invalid("Payment expired: current time  > validBefore ",
                 chain.time, p.validBefore.n)
    ELSE verify_eip3009_signature(p, req, to_checksum_address(p.from))

\* verify_payment with the scheme compared before the version
verify_payment_scheme_first(h, req, chain) ==
    IF h.enc = "badpad"
    THEN Invalid("Invalid base64 encoding: ", 0, 0)
    ELSE IF h.enc # "ok"
    THEN Invalid("Verification error: ", 0, 0)
    ELSE IF h.scheme # req.scheme
    THEN Invalid("Scheme mismatch: expected , got ", req.scheme, h.scheme)
    ELSE IF h.x402Version # 1
    THEN Invalid("Unsupported protocol version: ", h.x402Version, 0)
    ELSE IF h.network # req.network
    THEN Invalid("Network mismatch: expected , got ", req.network, h.network)
    ELSE IF h.scheme = EXACT
    THEN verify_exact_scheme(h, req, chain)
    ELSE Invalid("Unsupported payment scheme: ", h.scheme, 0)

\* verification.py:38-81.  h.enc is how the header decodes: "ok", "badpad"
\* (base64.b64decode raises binascii.Error), "badjson" (the bytes are no
\* JSON, or no PaymentPayload: model_validate_json raises).
verify_payment(h, req, chain) ==
    IF h.enc = "badpad"
    THEN Invalid("Invalid base64 encoding: ", 0, 0)
    ELSE IF h.enc # "ok"
    THEN Invalid("Verification error: ", 0, 0)
    ELSE IF h.x402Version # 1
    THEN Invalid("Unsupported protocol version: ", h.x402Version, 0)
    ELSE IF h.scheme # req.scheme
    THEN Invalid("Scheme mismatch: expected , got ", req.scheme, h.scheme)
    ELSE IF h.network # req.network
    THEN Invalid("Network mismatch: expected , got ", req.network, h.network)
    ELSE IF h.scheme = EXACT
    THEN verify_exact_scheme(h, req, chain)
    ELSE Invalid("Unsupported payment scheme: ", h.scheme, 0)

(***************************************************************************)
(* Configuration of the resource server and the requirements it mints.     *)
(***************************************************************************)
\* resource_server.py:80-81: RESOURCE_SERVER_ADDRESS, TOKEN_CONTRACT_ADDRESS
RESOURCE_SERVER_ADDRESS == Addr("R", "checksum")
TOKEN_CONTRACT_ADDRESS == Addr("T", "checksum")
\* resource_server.py:121-124: the token's EIP-712 domain
TokenDomain == [name |-> "USDC", version |-> "2"]

RECURSIVE Pow10(_)
Pow10(k) == IF k = 0 THEN 1 ELSE 10 * Pow10(k - 1)

\* resource_server.py:87-125.  amount_cents is the route's price in cents
\* ("$0.01" is 1): int(float(amount_usd) * 10 ** TOKEN_DECIMALS).
create_payment_requirements(amount_cents, resource_path, description, mime_type) ==
    [scheme |-> "exact",
     network |-> Eip155(CHAIN_ID),
     maxAmountRequired |-> Dec(amount_cents * Pow10(TOKEN_DECIMALS - 2)),
     resource |-> resource_path,
     description |-> description,
     mimeType |-> mime_type,
     outputSchema |-> None,
     payTo |-> RESOURCE_SERVER_ADDRESS,
     maxTimeoutSeconds |-> 60,
     asset |-> TOKEN_CONTRACT_ADDRESS,
     extra |-> TokenDomain]

(***************************************************************************)
(* Payment headers.  MkHeader is the envelope of protocol.py:60-67 around  *)
(* the ExactPaymentPayload of protocol.py:45-57; SignedBy gives the (r, s) *)
(* a holder of the key of `signer` makes over the payload's own fields     *)
(* under the domain of the requirements req.                               *)
(***************************************************************************)
ClientAddress == Addr("C", "checksum")
Nonce(i) == [id |-> i, len |-> 32]

MkPayload(from, to, value, validAfter, validBefore, nonce, v, rs) ==
    [from |-> from, to |-> to, value |-> value, validAfter |-> validAfter,
     validBefore |-> validBefore, nonce |-> nonce, v |-> v, rs |-> rs]

MkHeader(x402Version, scheme, network, payload) ==
    [enc |-> "ok", inner |-> TRUE, x402Version |-> x402Version,
     scheme |-> scheme, network |-> network, payload |-> payload]

SignedBy(signer, req, from, to, value, validAfter, validBefore, nonce) ==
    Sig(signer, TypedDataDigest(req.extra.name, req.extra.version,
                                ParseChainId(req.network), req.asset,
                                from, to, value.n, validAfter.n, validBefore.n, nonce))

(***************************************************************************)
(* Bounds of the model.                                                    *)
(***************************************************************************)
\* requests the resource server handles, each one /settle call at most
NumRequests == 2
\* the chain's clock runs from 1 to MaxTime
MaxTime == 3
\* the node's gas price, whenever it is read, is some value in 1..MaxGasPrice
MaxGasPrice == 2
\* the verifier is tried on timestamps 0..MaxStamp
MaxStamp == 2

Slots == 1..NumRequests

(***************************************************************************)
(* The protected routes (resource_server.py:282-298): path, price in       *)
(* cents, description.                                                     *)
(***************************************************************************)
Routes == {"/weather", "/article"}
RoutePrice(path) == IF path = "/weather" THEN 1 ELSE 5
RouteDescription(path) ==
    IF path = "/weather" THEN "Current weather information" ELSE "Premium article content"

\* resource_server.py:91: the default of mime_type
DEFAULT_MIME_TYPE == "application/json"

\* resource_server.py:149-154: the requirements of the 402 challenge, minted
\* with mime_type given
ChallengeRequirements(path) ==
    create_payment_requirements(RoutePrice(path), path, RouteDescription(path),
                                "application/json")

\* variant: requirements minted on the retry with no MIME type
RetryRequirementsNoMime(path) ==
    create_payment_requirements(RoutePrice(path), path, RouteDescription(path), "")

\* resource_server.py:166-170: the requirements minted again when the request
\* carries X-PAYMENT, with mime_type left to its default
RetryRequirements(path) ==
    create_payment_requirements(RoutePrice(path), path, RouteDescription(path),
                                DEFAULT_MIME_TYPE)

\* the requirements of a route, as the facilitator is asked to enforce them
RouteRequirements(path) == RetryRequirements(path)

(***************************************************************************)
(* The payments clients present in the protocol model: P1 and P2 are two   *)
(* authorizations of 10000 units to the resource server, signed by the     *)
(* client for the window [0, 2], with different nonces.                    *)
(***************************************************************************)
HeaderIds == {"P1", "P2"}

ClientPayment(nonce) ==
    LET req == RouteRequirements("/weather") IN
    MkHeader(1, req.scheme, req.network,
             MkPayload(ClientAddress, req.payTo, req.maxAmountRequired,
                       Dec(0), Dec(2), nonce, 27,
                       SignedBy(ClientAddress.id, req, ClientAddress, req.payTo,
                                req.maxAmountRequired, Dec(0), Dec(2), nonce)))

HeaderOf(id) == IF id = "P1" THEN ClientPayment(Nonce(1)) ELSE ClientPayment(Nonce(2))

\* the key of the token's nonce bitmap: (authorizer, nonce)
AuthKey(p) == <<to_checksum_address(p.from).id, p.nonce>>

VARIABLES
    chainTime,           \* timestamp of the latest block
    authorizationState,  \* the token's used (authorizer, nonce) pairs
    txCount,             \* eth_getTransactionCount(facilitator, latest)
    mempool,             \* transactions the node holds, not yet mined
    receipts,            \* mined transactions with their status
    slot,                \* per request: the middleware's and the facilitator's state
    vin, vout, vpc       \* one call of the verifier: input, result, position

chainVars == <<chainTime, authorizationState, txCount, mempool, receipts>>
verifyVars == <<vin, vout, vpc>>
vars == <<chainTime, authorizationState, txCount, mempool, receipts, slot,
          vin, vout, vpc>>

(***************************************************************************)
(* The token contract and the node, as the settler's RPC calls see them.   *)
(* transferWithAuthorization(from, to, value, validAfter, validBefore,     *)
(* nonce, v, r, s) is EIP-3009's: it reverts unless the block's timestamp  *)
(* is strictly inside the window, the nonce is unused, the signature is    *)
(* the authorizer's over the token's own domain, and the authorizer holds  *)
(* the value (funded); when it succeeds it marks the nonce used.           *)
(***************************************************************************)
TokenSignatureValid(p) ==
    /\ p.v \in {27, 28}
    /\ recover_message(TypedDataDigest(TokenDomain.name, TokenDomain.version, CHAIN_ID,
                                       TOKEN_CONTRACT_ADDRESS, p.from, p.to, p.value.n,
                                       p.validAfter.n, p.validBefore.n, p.nonce),
                       p.rs, p.v) = p.from.id

TransferSucceeds(p, used, time, funded) ==
    /\ time > p.validAfter.n
    /\ time < p.validBefore.n
    /\ AuthKey(p) \notin used
    /\ TokenSignatureValid(p)
    /\ funded

\* eth_sendRawTransaction: the node takes a transaction unless its account
\* nonce is already mined ("nonce too low"), it already holds the same
\* transaction ("already known"), or it holds another one of that account
\* nonce at a gas price not below this one's ("replacement transaction
\* underpriced"); a better priced one replaces the one it holds.
NodeAccepts(tx, count, pool) ==
    /\ tx.nonce >= count
    /\ tx \notin pool
    /\ \A old \in pool : old.nonce = tx.nonce => tx.price > old.price

\* the message of the error the node answers a refused transaction with
NodeRefusal(tx, count, pool) ==
    IF tx.nonce < count THEN "nonce too low"
    ELSE IF tx \in pool THEN "already known"
    ELSE "replacement transaction underpriced"

PoolAfter(tx, pool) == {old \in pool : old.nonce # tx.nonce} \cup {tx}

(***************************************************************************)
(* Results.  An error is [msg, detail]: the fixed part of the message and  *)
(* what is appended to it.                                                 *)
(***************************************************************************)
NoError == [msg |-> "", detail |-> ""]
Error(msg, detail) == [msg |-> msg, detail |-> detail]

\* the settler's (success, error_message, tx_hash)
SettleResult(success, error, tx_hash) ==
    [success |-> success, error |-> error, tx_hash |-> tx_hash]

\* variants: a used nonce taken for a settled payment, and a receipt whose
\* status is not looked at
nonce_used_as_settled == SettleResult(TRUE, NoError, None)
receipt_result_any_status(status, tx_hash) == SettleResult(TRUE, NoError, tx_hash)

\* settlement.py:153-154
nonce_used_result == SettleResult(FALSE, Error("Authorization nonce already used", ""), None)

\* settlement.py:210-213: the receipt's status decides
receipt_result(status, tx_hash) ==
    IF status = 1
    THEN SettleResult(TRUE, NoError, tx_hash)
    ELSE SettleResult(FALSE, Error("Transaction reverted", ""), tx_hash)

\* variant: a wait that ended without a receipt taken for a settlement
timeout_result_as_settled(tx_hash) == SettleResult(TRUE, NoError, tx_hash)

\* variant: a wait that ended without a receipt reported without the hash
timeout_result_without_hash(tx_hash) ==
    SettleResult(FALSE, Error("Transaction confirmation timeout: ", ""), None)

\* settlement.py:215-216
timeout_result(tx_hash) ==
    SettleResult(FALSE, Error("Transaction confirmation timeout: ", ""), tx_hash)

\* facilitator_server.py:182-189
verification_failed_response(reason) ==
    [status |-> 200, success |-> FALSE,
     error |-> Error("Verification failed: ", reason.msg),
     txHash |-> None, networkId |-> ""]

\* facilitator_server.py:209-214
settlement_response(result, req) ==
    [status |-> 200, success |-> result.success, error |-> result.error,
     txHash |-> result.tx_hash,
     networkId |-> IF result.success THEN req.network ELSE ""]

\* facilitator_server.py:216-218: an exception in the handler
facilitator_error_response ==
    [status |-> 500, success |-> FALSE, error |-> Error("Settlement failed: ", ""),
     txHash |-> None, networkId |-> ""]

(***************************************************************************)
(* The middleware's responses (resource_server.py:141-246).  served says   *)
(* whether the wrapped handler was invoked for the request; x402Version is *)
(* 0 in a body that has no such field.                                     *)
(***************************************************************************)
MiddlewareResponse(status, accepts, error, paymentResponse, served) ==
    [status |-> status, x402Version |-> 0, accepts |-> accepts, error |-> error,
     paymentResponse |-> paymentResponse, served |-> served]

\* variant: a 402 that drops the error it was given
payment_required_without_error(accepts, error) ==
    [MiddlewareResponse(402, accepts, NoError, None, FALSE) EXCEPT !.x402Version = 1]

\* resource_server.py:155-161 and 194-199: status 402 with a
\* PaymentRequiredResponse as the body
PaymentRequiredResponse(accepts, error) ==
    [MiddlewareResponse(402, accepts, error, None, FALSE) EXCEPT !.x402Version = 1]

\* variant: a 402 that names no requirements
payment_required_bare(req) == MiddlewareResponse(402, <<>>, NoError, None, FALSE)

\* resource_server.py:145-161
payment_required(req) == PaymentRequiredResponse(<<req>>, NoError)

\* what the wrapped function does: it returns a Response (jsonify, status
\* 200), returns a plain dict (status 200), returns a (data, status_code)
\* pair as the handlers of resource_server.py:342-705 do when their upstream
\* is not configured (503) or times out (408), or raises
HandlerOutcomes == {"returns", "returns_dict", "unavailable", "upstream_timeout", "raises"}
HandlerStatus(handler) ==
    CASE handler = "unavailable" -> 503
      [] handler = "upstream_timeout" -> 408
      [] OTHER -> 200

\* the form of the handler's return value, as lines 214 and 221 tell them
\* apart: isinstance(result, Response), isinstance(result, tuple), other
HandlerForm(handler) ==
    CASE handler = "returns" -> "Response"
      [] handler = "returns_dict" -> "other"
      [] OTHER -> "tuple"

\* resource_server.py:208-212: the JSON of X-PAYMENT-RESPONSE
payment_response(fres) == [txHash |-> fres.txHash, networkId |-> fres.networkId]

\* variant: the header is set on a Response object only
attach_to_response_only(form, fres) ==
    IF fres.txHash = None \/ form # "Response" THEN None ELSE payment_response(fres)

\* resource_server.py:207-238: the X-PAYMENT-RESPONSE header of the response
\* made from the handler's result (None: no such header), by form
attach_payment_response(form, fres) ==
    IF fres.txHash = None THEN None
    ELSE CASE form = "Response" -> payment_response(fres)
           [] form = "tuple" -> payment_response(fres)
           [] OTHER -> payment_response(fres)

\* variant: any HTTP 200 from the facilitator counts
settle_accepted_any_200(fres) == fres.status = 200

\* resource_server.py:184 and 191: is the facilitator's answer one to act on
settle_accepted(fres) == fres.status = 200 /\ fres.success

\* variant: a raising handler is answered 500 with the payment receipt attached
handle_settle_response_with_receipt(fres, req, handler) ==
    IF fres.status # 200
    THEN MiddlewareResponse(402, <<>>, Error("Payment settlement failed", ""), None, FALSE)
    ELSE IF ~ settle_accepted(fres)
    THEN PaymentRequiredResponse(<<req>>, fres.error)
    ELSE IF handler = "raises"
    THEN MiddlewareResponse(500, <<>>, Error("Payment verification failed: ", ""),
                            payment_response(fres), TRUE)
    ELSE MiddlewareResponse(HandlerStatus(handler), <<>>, NoError,
                            attach_payment_response(HandlerForm(handler), fres), TRUE)

\* resource_server.py:184-238.  handler is what the wrapped function does:
\* one of HandlerOutcomes ("raises" is caught at 244-246).
handle_settle_response(fres, req, handler) ==
    IF fres.status # 200
    THEN MiddlewareResponse(402, <<>>, Error("Payment settlement failed", ""), None, FALSE)
    ELSE IF ~ settle_accepted(fres)
    THEN PaymentRequiredResponse(<<req>>, fres.error)
    ELSE IF handler = "raises"
    THEN MiddlewareResponse(500, <<>>, Error("Payment verification failed: ", ""), None, TRUE)
    ELSE MiddlewareResponse(HandlerStatus(handler), <<>>, NoError,
                            attach_payment_response(HandlerForm(handler), fres), TRUE)

\* variant: the timeout of the /settle call answered as any other error
timeout_as_error == MiddlewareResponse(500, <<>>, Error("Payment verification failed: ", ""), None, FALSE)

\* resource_server.py:240-242
timeout_response == MiddlewareResponse(408, <<>>, Error("Payment verification timeout", ""), None, FALSE)
\* resource_server.py:244-246
error_response == MiddlewareResponse(500, <<>>, Error("Payment verification failed: ", ""), None, FALSE)

(***************************************************************************)
(* The protocol.  A slot is one request to a protected route and, when it  *)
(* carries X-PAYMENT, the facilitator's /settle call made for it.  pc is   *)
(* where the /settle call stands, stage where it ended; mres is the        *)
(* middleware's response (set before the call ends when the middleware's   *)
(* own timeout fires first) and fres the facilitator's; req is what the    *)
(* middleware sent to /settle and settledBefore whether the payment had    *)
(* settled already when the request arrived; vres and sres are what        *)
(* verify_payment and settle_payment returned to /settle; wait and cap are  *)
(* the settler's wait_for_confirmation and max_gas_price_gwei, rpcs the    *)
(* RPC requests the settler has made in the call, is_used whether          *)
(* authorizationState answered true, current_gas_price the price read     *)
(* for the cap (0 when none was read), and sent the number of              *)
(* transactions the node took from it.  Calls interleave                   *)
(* at their RPC calls: request-per-thread on the resource server, and one  *)
(* settler identity shared by every /settle call, whether the facilitator  *)
(* runs as several workers on one key or as a single event loop, whose     *)
(* runs (one call after the other) are among the interleavings.            *)
(***************************************************************************)
\* settlement.py:255 and facilitator_server.py:96: the facilitator sets no cap
\* (0 stands for None: `if self.max_gas_price_gwei` is false for both)
max_gas_price_gwei == 0

\* facilitator_server.py:197-202: /settle calls the settler with
\* wait_for_confirmation=True
WAIT_FOR_CONFIRMATION == TRUE

IdleSlot == [pc |-> "idle", route |-> "none", hdr |-> "none", req |-> None,
             settledBefore |-> FALSE, vres |-> None, sres |-> None, stage |-> "none",
             wait |-> WAIT_FOR_CONFIRMATION, cap |-> max_gas_price_gwei,
             rpcs |-> {}, is_used |-> FALSE, current_gas_price |-> 0, sent |-> 0,
             tx |-> None, broadcast |-> FALSE, fres |-> None, mres |-> None]

NoInput == [kind |-> "NoInput"]

Init ==
    /\ chainTime = 1
    /\ authorizationState = {}
    /\ txCount = 0
    /\ mempool = {}
    /\ receipts = {}
    /\ slot = [i \in Slots |-> IdleSlot]
    /\ vin = NoInput
    /\ vout = None
    /\ vpc = "off"

\* the payment of header h has settled already: its authorization is used
AlreadySettled(h) == AuthKey(HeaderOf(h).payload) \in authorizationState

InProgress(s) == s.pc \in {"precheck", "build", "estimate", "send", "wait"}

\* the call of slot s has made the RPC request rpc
Called(s, rpc) == [s EXCEPT !.rpcs = @ \cup {rpc}]
Payload(s) == HeaderOf(s.hdr).payload

\* requests are taken into the slots in order, and P1 is presented before P2
\* (the two differ by their nonce alone)
MayPresent(i, h) == h = "P1" \/ \E j \in 1..(i - 1) : slot[j].hdr = "P1"

MayArrive(i) ==
    /\ slot[i].pc = "idle"
    /\ IF i = 1 THEN TRUE ELSE slot[i - 1].pc # "idle"

\* the /settle call of slot s ends with the settler's result; the middleware,
\* unless it has answered already, acts on the facilitator's response
Finish(s, result, handler) ==
    LET req == RouteRequirements(s.route)
        fres == settlement_response(result, req)
    IN  [s EXCEPT !.pc = "done", !.stage = s.pc, !.fres = fres, !.sres = result,
                  !.tx = IF result.tx_hash = None THEN None ELSE s.tx,
                  !.mres = IF s.mres # None THEN s.mres
                           ELSE handle_settle_response(fres, req, handler)]

\* resource_server.py:143-161: no X-PAYMENT header
RequestWithoutPayment(i) ==
    /\ MayArrive(i)
    /\ \E path \in Routes :
         slot' = [slot EXCEPT ![i] = [@ EXCEPT !.pc = "done", !.route = path,
                                        !.mres = payment_required(ChallengeRequirements(path))]]
    /\ UNCHANGED <<chainVars, verifyVars>>

\* resource_server.py:172-182 and 244-246: requests.post raises (the
\* facilitator cannot be reached)
RequestFacilitatorDown(i) ==
    /\ MayArrive(i)
    /\ \E path \in Routes, h \in {x \in HeaderIds : MayPresent(i, x)} :
         slot' = [slot EXCEPT ![i] = [@ EXCEPT !.pc = "done", !.route = path, !.hdr = h,
                                        !.req = RetryRequirements(path),
                                        !.settledBefore = AlreadySettled(h),
                                        !.stage = "unreached", !.mres = error_response]]
    /\ UNCHANGED <<chainVars, verifyVars>>

\* facilitator_server.py:170-174 and 216-218: /settle raises before it has
\* verified; resource_server.py:184-189
RequestFacilitatorFault(i) ==
    /\ MayArrive(i)
    /\ \E path \in Routes, h \in {x \in HeaderIds : MayPresent(i, x)} :
         slot' = [slot EXCEPT ![i] =
                    [@ EXCEPT !.pc = "done", !.route = path, !.hdr = h, !.stage = "fault",
                              !.req = RetryRequirements(path),
                              !.settledBefore = AlreadySettled(h),
                              !.fres = facilitator_error_response,
                              !.mres = handle_settle_response(facilitator_error_response,
                                                              RouteRequirements(path),
                                                              "returns")]]
    /\ UNCHANGED <<chainVars, verifyVars>>

\* variant of RequestSettle: /settle hands the payment to the settler without
\* looking at the verifier's result
RequestSettleUnverified(i) ==
    /\ MayArrive(i)
    /\ \E path \in Routes, h \in {x \in HeaderIds : MayPresent(i, x)} :
         slot' = [slot EXCEPT ![i] = [@ EXCEPT !.pc = "precheck", !.route = path, !.hdr = h,
                                        !.req = RetryRequirements(path),
                                        !.settledBefore = AlreadySettled(h)]]
    /\ UNCHANGED <<chainVars, verifyVars>>

\* resource_server.py:163-182 and facilitator_server.py:176-193: the request
\* carries X-PAYMENT, the middleware posts it to /settle with the route's
\* requirements, and /settle verifies it first
RequestSettle(i) ==
    /\ MayArrive(i)
    /\ \E path \in Routes, h \in {x \in HeaderIds : MayPresent(i, x)}, rpcOk \in BOOLEAN :
         LET req == RetryRequirements(path)
             res == verify_payment(HeaderOf(h), req, [up |-> rpcOk, time |-> chainTime])
             fres == verification_failed_response(res.reason)
         IN  slot' = [slot EXCEPT ![i] =
                IF res = Raised
                THEN [@ EXCEPT !.pc = "done", !.route = path, !.hdr = h, !.req = req,
                               !.settledBefore = AlreadySettled(h), !.vres = res,
                               !.stage = "verify", !.fres = facilitator_error_response,
                               !.mres = handle_settle_response(facilitator_error_response,
                                                               req, "returns")]
                ELSE IF res.valid
                THEN [@ EXCEPT !.pc = "precheck", !.route = path, !.hdr = h, !.req = req,
                               !.settledBefore = AlreadySettled(h), !.vres = res]
                ELSE [@ EXCEPT !.pc = "done", !.route = path, !.hdr = h, !.req = req,
                               !.settledBefore = AlreadySettled(h), !.vres = res,
                               !.stage = "verify", !.fres = fres,
                               !.mres = handle_settle_response(fres, req, "returns")]]
    /\ UNCHANGED <<chainVars, verifyVars>>

\* variant: the answer of authorizationState is noted and not acted on
after_precheck_unheeded(s, answer) == [s EXCEPT !.is_used = (answer = "true"), !.pc = "build"]

\* variant: an exception of the authorizationState call ends the settlement
after_precheck_strict(s, answer) ==
    IF answer = "true"
    THEN Finish([s EXCEPT !.is_used = TRUE], nonce_used_result, "returns")
    ELSE IF answer = "raises"
    THEN Finish(s, SettleResult(FALSE, Error("Exact scheme settlement error: ",
                                             "execution reverted"), None), "returns")
    ELSE [s EXCEPT !.pc = "build"]

\* settlement.py:153-157: the answer "true" ends the call; "false", and an
\* exception of the call ("raises"), let it go on
after_precheck(s, answer) ==
    IF answer = "true"
    THEN Finish([s EXCEPT !.is_used = TRUE], nonce_used_result, "returns")
    ELSE [s EXCEPT !.pc = "build"]

\* settlement.py:143-157: authorizationState(from, nonce).call(); callOk is
\* FALSE when the call raises (the token has no such function, or the RPC
\* fails)
CheckAuthorizationState(i) ==
    /\ slot[i].pc = "precheck"
    /\ \E callOk \in BOOLEAN :
         slot' = [slot EXCEPT ![i] =
                    after_precheck(Called(@, "authorizationState"),
                                   IF ~ callOk THEN "raises"
                                   ELSE IF AuthKey(Payload(@)) \in authorizationState
                                   THEN "true" ELSE "false")]
    /\ UNCHANGED <<chainVars, verifyVars>>

\* settlement.py:159-174: build_transaction with the account nonce read from
\* eth_getTransactionCount and the gas price the node quotes at that moment
BuildTransaction(i) ==
    /\ slot[i].pc = "build"
    /\ \E rpcOk \in BOOLEAN, gasPrice \in 1..MaxGasPrice :
         slot' = [slot EXCEPT ![i] =
                    IF rpcOk
                    THEN [Called(@, "getTransactionCount") EXCEPT
                                   !.pc = "estimate",
                                   !.tx = [nonce |-> txCount, price |-> gasPrice,
                                           hdr |-> slot[i].hdr]]
                    ELSE Finish(Called(@, "getTransactionCount"),
                                SettleResult(FALSE,
                                                Error("Exact scheme settlement error: ",
                                                      "connection error"),
                                                None),
                                "returns")]
    /\ UNCHANGED <<chainVars, verifyVars>>

\* variant: a price equal to the cap is refused as well
at_or_over_cap(current_gas_price, max_gas_price) == current_gas_price >= max_gas_price

\* settlement.py:187: if current_gas_price > max_gas_price
over_cap(current_gas_price, max_gas_price) == current_gas_price > max_gas_price

\* variant: a failed gas estimate is ignored and the transaction is sent
after_estimate_failure_sending(s) == [s EXCEPT !.pc = "send"]

\* settlement.py:179-181: except Exception as e: return False,
\* f"Gas estimation failed: {str(e)}", None
after_estimate_failure(s) ==
    Finish(s, SettleResult(FALSE, Error("Gas estimation failed: ", ""), None), "returns")

\* settlement.py:176-188: estimate_gas runs the transfer on the latest state
\* and raises when it would revert (or the RPC fails); then the gas price cap,
\* when one is set (184: `if self.max_gas_price_gwei`)
EstimateGas(i) ==
    /\ slot[i].pc = "estimate"
    /\ \E rpcOk \in BOOLEAN, funded \in BOOLEAN, gasPrice \in 1..MaxGasPrice :
         slot' = [slot EXCEPT ![i] =
                    IF ~ (rpcOk /\ TransferSucceeds(Payload(@), authorizationState, chainTime, funded))
                    THEN after_estimate_failure(Called(@, "estimateGas"))
                    ELSE IF @.cap = 0
                    THEN [Called(@, "estimateGas") EXCEPT !.pc = "send"]
                    ELSE IF over_cap(gasPrice, @.cap)
                    THEN Finish([Called(Called(@, "estimateGas"), "gasPrice") EXCEPT
                                    !.current_gas_price = gasPrice],
                                SettleResult(FALSE, Error("Gas price too high: ", ""), None),
                                "returns")
                    ELSE [Called(Called(@, "estimateGas"), "gasPrice") EXCEPT
                             !.current_gas_price = gasPrice, !.pc = "send"]]
    /\ UNCHANGED <<chainVars, verifyVars>>

\* variant: the settler waits for the receipt whatever it was asked
after_broadcast_waiting(s) == [s EXCEPT !.pc = "wait"]

\* settlement.py:202-219: after the broadcast the settler waits for the
\* receipt, or with wait_for_confirmation false returns at once
after_broadcast(s) ==
    IF s.wait
    THEN [s EXCEPT !.pc = "wait"]
    ELSE Finish(s, SettleResult(TRUE, NoError, s.tx), "returns")

\* settlement.py:190-200: sign and send_raw_transaction; a transaction the
\* node refuses (or an RPC failure) raises into the handler of 221-222
SendRawTransaction(i) ==
    /\ slot[i].pc = "send"
    /\ \E rpcOk \in BOOLEAN :
         IF rpcOk /\ NodeAccepts(slot[i].tx, txCount, mempool)
         THEN /\ mempool' = PoolAfter(slot[i].tx, mempool)
              /\ slot' = [slot EXCEPT ![i] =
                            after_broadcast([Called(@, "sendRawTransaction") EXCEPT
                                                !.broadcast = TRUE, !.sent = @ + 1])]
         ELSE /\ mempool' = mempool
              /\ slot' = [slot EXCEPT ![i] =
                            Finish(Called(@, "sendRawTransaction"),
                                   SettleResult(FALSE,
                                                   Error("Exact scheme settlement error: ",
                                                         IF rpcOk
                                                         THEN NodeRefusal(slot[i].tx, txCount, mempool)
                                                         ELSE "connection error"),
                                                   None),
                                   "returns")]
    /\ UNCHANGED <<chainTime, authorizationState, txCount, receipts, verifyVars>>

\* variant: a call whose transaction reverted builds and sends another one
ReceiveReceiptRetrying(i) ==
    /\ slot[i].pc = "wait"
    /\ \E r \in receipts, handler \in HandlerOutcomes :
         /\ r.tx = slot[i].tx
         /\ slot' = [slot EXCEPT ![i] =
                       IF r.status = 1
                       THEN Finish(Called(@, "waitForReceipt"),
                                   receipt_result(r.status, r.tx), handler)
                       ELSE [Called(@, "waitForReceipt") EXCEPT !.pc = "build"]]
    /\ UNCHANGED <<chainVars, verifyVars>>

\* settlement.py:202-216: wait_for_transaction_receipt returns the receipt
ReceiveReceipt(i) ==
    /\ slot[i].pc = "wait"
    /\ \E r \in receipts, handler \in HandlerOutcomes :
         /\ r.tx = slot[i].tx
         /\ slot' = [slot EXCEPT ![i] = Finish(Called(@, "waitForReceipt"),
                                                receipt_result(r.status, r.tx), handler)]
    /\ UNCHANGED <<chainVars, verifyVars>>

\* variant: the wait has no timeout and ends only when the transaction has
\* left the node's pool
ReceiptTimeoutUnbounded(i) ==
    /\ slot[i].pc = "wait"
    /\ slot[i].tx \notin mempool
    /\ slot' = [slot EXCEPT ![i] = Finish(Called(@, "waitForReceipt"), timeout_result(@.tx),
                                           "returns")]
    /\ UNCHANGED <<chainVars, verifyVars>>

\* settlement.py:215-216: wait_for_transaction_receipt raises (no receipt within
\* `timeout`, or the RPC fails)
ReceiptTimeout(i) ==
    /\ slot[i].pc = "wait"
    /\ slot' = [slot EXCEPT ![i] = Finish(Called(@, "waitForReceipt"), timeout_result(@.tx),
                                           "returns")]
    /\ UNCHANGED <<chainVars, verifyVars>>

\* resource_server.py:181 and 240-242: requests.post times out while /settle
\* is still running; the call goes on at the facilitator
MiddlewareTimeout(i) ==
    /\ InProgress(slot[i])
    /\ slot[i].mres = None
    /\ slot' = [slot EXCEPT ![i] = [@ EXCEPT !.mres = timeout_response]]
    /\ UNCHANGED <<chainVars, verifyVars>>

(***************************************************************************)
(* The chain.                                                              *)
(***************************************************************************)
\* a block includes the facilitator's next transaction: the transfer runs at
\* the block's timestamp
MineTransaction ==
    \E tx \in mempool, time \in chainTime..(chainTime + 1), funded \in BOOLEAN :
        /\ tx.nonce = txCount
        /\ time <= MaxTime
        /\ LET p == HeaderOf(tx.hdr).payload
               ok == TransferSucceeds(p, authorizationState, time, funded)
           IN  /\ authorizationState' = IF ok THEN authorizationState \cup {AuthKey(p)}
                                        ELSE authorizationState
               /\ receipts' = receipts \cup {[tx |-> tx, status |-> IF ok THEN 1 ELSE 0]}
        /\ chainTime' = time
        /\ txCount' = txCount + 1
        /\ mempool' = mempool \ {tx}
        /\ UNCHANGED <<slot, verifyVars>>

\* a block without any of the facilitator's transactions
Tick ==
    /\ chainTime < MaxTime
    /\ chainTime' = chainTime + 1
    /\ UNCHANGED <<authorizationState, txCount, mempool, receipts, slot, verifyVars>>

Next ==
    \/ \E i \in Slots : RequestWithoutPayment(i)
    \/ \E i \in Slots : RequestFacilitatorDown(i)
    \/ \E i \in Slots : RequestFacilitatorFault(i)
    \/ \E i \in Slots : RequestSettle(i)
    \/ \E i \in Slots : CheckAuthorizationState(i)
    \/ \E i \in Slots : BuildTransaction(i)
    \/ \E i \in Slots : EstimateGas(i)
    \/ \E i \in Slots : SendRawTransaction(i)
    \/ \E i \in Slots : ReceiveReceipt(i)
    \/ \E i \in Slots : ReceiptTimeout(i)
    \/ \E i \in Slots : MiddlewareTimeout(i)
    \/ MineTransaction
    \/ Tick

Spec == Init /\ [][Next]_vars

(***************************************************************************)
(* The verifier on its own: one call of verify_payment on an input drawn   *)
(* from headers, requirements and chain tips that differ from a good       *)
(* payment in every combination of the ways the checks look at.            *)
(***************************************************************************)
Stamps == 0..MaxStamp

OtherAddress == Addr("X", "checksum")
Recipients == {RESOURCE_SERVER_ADDRESS, Addr("R", "lower"), OtherAddress, Addr("Z", "bad")}
Values == {Dec(10000), Dec(0), Padded(10000), Dec(50000)}
Signers == {ClientAddress.id, "M"}

\* an authorization from the client, signed by `signer` over its own fields
\* under the token's domain
InputPayload(to, value, validAfter, validBefore, signer) ==
    MkPayload(ClientAddress, to, value, Dec(validAfter), Dec(validBefore), Nonce(1), 27,
              SignedBy(signer, RouteRequirements("/weather"), ClientAddress, to, value,
                       Dec(validAfter), Dec(validBefore), Nonce(1)))

DecodedHeaders ==
    {MkHeader(ver, sch, net, InputPayload(to, val, va, vb, signer)) :
        ver \in {1, 2}, sch \in {"exact", "upto"}, net \in {"eip155:84532", "eip155:1"},
        to \in Recipients, val \in Values, va \in Stamps, vb \in Stamps, signer \in Signers}

\* headers that do not decode, or whose inner payload does not
MalformedHeaders ==
    LET base == {h \in DecodedHeaders :
                    /\ h.payload.validAfter.n = 0
                    /\ h.payload.validBefore.n = MaxStamp
                    /\ h.payload.value = Dec(10000)
                    /\ h.payload.rs.signer = ClientAddress.id}
    IN  {[h EXCEPT !.enc = e] : h \in base, e \in {"badpad", "badjson"}}
        \cup {[h EXCEPT !.inner = FALSE] : h \in base}

VerifyRequirements ==
    {[RouteRequirements("/weather") EXCEPT !.scheme = sch, !.maxAmountRequired = amt,
                                           !.payTo = payTo, !.extra = extra] :
        sch \in {"exact", "upto"}, amt \in {Dec(10000), Dec(0)},
        payTo \in {RESOURCE_SERVER_ADDRESS, Addr("R", "lower")},
        extra \in {TokenDomain, None, [name |-> "", version |-> "2"]}}

InitVerify ==
    /\ chainTime = 1
    /\ authorizationState = {}
    /\ txCount = 0
    /\ mempool = {}
    /\ receipts = {}
    /\ slot = [i \in Slots |-> IdleSlot]
    /\ \E h \in DecodedHeaders \cup MalformedHeaders, req \in VerifyRequirements,
          up \in BOOLEAN, now \in Stamps :
            vin = [h |-> h, req |-> req, chain |-> [up |-> up, time |-> now]]
    /\ vout = None
    /\ vpc = "ready"

\* variant: a verification that marks a valid authorization as used
VerifyCallMarking ==
    /\ vpc = "ready"
    /\ vout' = verify_payment(vin.h, vin.req, vin.chain)
    /\ vpc' = "done"
    /\ authorizationState' =
         IF vout'.valid THEN authorizationState \cup {AuthKey(vin.h.payload)}
         ELSE authorizationState
    /\ UNCHANGED <<chainTime, txCount, mempool, receipts, slot, vin>>

\* facilitator_server.py:139-143: POST /verify calls the verifier
VerifyCall ==
    /\ vpc = "ready"
    /\ vout' = verify_payment(vin.h, vin.req, vin.chain)
    /\ vpc' = "done"
    /\ UNCHANGED <<chainVars, slot, vin>>

NextVerify == VerifyCall

SpecVerify == InitVerify /\ [][NextVerify]_vars

(***************************************************************************)
(* The client and the verifier: a client makes a payment for requirements  *)
(* it was sent (client.py), the header may be altered on its way, and      *)
(* POST /verify judges what arrives, any number of times.                  *)
(***************************************************************************)
\* client.py:151: valid_after = current_time - 10
ClockSkew == 10

\* variant: a window that opens ClockSkew after the reference time
create_exact_payment_late(req, account, current_time, valid_duration, nonce) ==
    LET valid_after == current_time + ClockSkew
        valid_before == current_time + valid_duration
    IN  MkHeader(1, req.scheme, req.network,
                 MkPayload(to_checksum_address(account), to_checksum_address(req.payTo),
                           req.maxAmountRequired, Dec(valid_after), Dec(valid_before), nonce, 27,
                           Sig(account.id, ClientDigest(req, account, valid_after, valid_before, nonce))))

\* client.py:125-250.  current_time is the client's reference time (the
\* chain tip's timestamp, or its own clock), nonce the 32 bytes drawn at
\* line 147, account the address of its key.
create_exact_payment(req, account, current_time, valid_duration, nonce) ==
    LET valid_after == current_time - ClockSkew
        valid_before == current_time + valid_duration
    IN  MkHeader(1, req.scheme, req.network,
                 MkPayload(to_checksum_address(account), to_checksum_address(req.payTo),
                           req.maxAmountRequired, Dec(valid_after), Dec(valid_before), nonce, 27,
                           Sig(account.id, ClientDigest(req, account, valid_after, valid_before, nonce))))

\* requirements a resource server may mint: addresses in either case, the
\* amount with or without a leading zero
ClientRequirements ==
    {[RouteRequirements("/weather") EXCEPT !.maxAmountRequired = amt, !.payTo = payTo,
                                           !.asset = asset] :
        amt \in {Dec(10000), Padded(10000), Dec(0)},
        payTo \in {RESOURCE_SERVER_ADDRESS, Addr("R", "lower")},
        asset \in {TOKEN_CONTRACT_ADDRESS, Addr("T", "lower")}}

ClientTimes == ClockSkew..(ClockSkew + MaxStamp)
Durations == 0..MaxStamp
VerifierTimes == (ClockSkew - 1)..(ClockSkew + 2 * MaxStamp + 1)

NoHeader == [kind |-> "NoHeader"]

InitClient ==
    /\ chainTime = 1
    /\ authorizationState \in SUBSET {AuthKey([from |-> ClientAddress, nonce |-> Nonce(1)])}
    /\ txCount = 0
    /\ mempool = {}
    /\ receipts = {}
    /\ slot = [i \in Slots |-> IdleSlot]
    /\ \E req \in ClientRequirements, now \in ClientTimes, d \in Durations,
          up \in BOOLEAN, t \in VerifierTimes :
            vin = [h |-> NoHeader, req |-> req, chain |-> [up |-> up, time |-> t],
                   now |-> now, d |-> d, edit |-> "none"]
    /\ vout = None
    /\ vpc = "client"

\* client.py:105-123: create_payment
CreatePayment ==
    /\ vpc = "client"
    /\ vin' = [vin EXCEPT !.h = create_exact_payment(vin.req, ClientAddress, vin.now, vin.d, Nonce(1))]
    /\ vpc' = "ready"
    /\ UNCHANGED <<chainVars, slot, vout>>

(***************************************************************************)
(* Alterations of a header between the client and the verifier.  Those of  *)
(* SingleByteEdits change one byte of the decoded JSON; "v0", "v1" and     *)
(* "v36" write another v next to the same r and s; "nonce31" and "nonce33" *)
(* are what a client makes that signs over a nonce of 31 or 33 bytes;      *)
(* "lowerCase" writes from and to in lower case, "valuePad" writes the     *)
(* value with a leading zero, or without the one it had.                   *)
(***************************************************************************)
SingleByteEdits == {"version", "scheme", "network", "fromDigit", "toDigit", "toCase",
                    "value", "validAfter", "validBefore", "nonceDigit",
                    "v28", "v37", "v20", "rDigit", "rCase"}
Edits == SingleByteEdits \cup {"v0", "v1", "v36", "nonce31", "nonce33", "lowerCase", "valuePad"}

WithV(h, v) == [h EXCEPT !.payload.v = v]

Resigned(h, req, nonce) ==
    LET p == h.payload IN
    [h EXCEPT !.payload.nonce = nonce,
              !.payload.rs = Sig(p.from.id, ClientDigest(req, p.from, p.validAfter.n,
                                                         p.validBefore.n, nonce))]

Edit(h, req, e) ==
    LET p == h.payload IN
    CASE e = "version" -> [h EXCEPT !.x402Version = 2]
      [] e = "scheme" -> [h EXCEPT !.scheme = "exacu"]
      [] e = "network" -> [h EXCEPT !.network = "eip155:84533"]
      [] e = "fromDigit" -> [h EXCEPT !.payload.from = Addr("D", "miscased")]
      [] e = "toDigit" -> [h EXCEPT !.payload.to = Addr("Q", "miscased")]
      [] e = "toCase" -> [h EXCEPT !.payload.to = Addr(p.to.id, "miscased")]
      [] e = "value" -> [h EXCEPT !.payload.value =
                            [p.value EXCEPT !.n = IF @ = 0 THEN 4 ELSE @ + 40000]]
      [] e = "validAfter" -> [h EXCEPT !.payload.validAfter = Dec(p.validAfter.n + 1)]
      [] e = "validBefore" -> [h EXCEPT !.payload.validBefore = Dec(p.validBefore.n + 1)]
      [] e = "nonceDigit" -> [h EXCEPT !.payload.nonce = Nonce(2)]
      [] e = "v28" -> WithV(h, 28)
      [] e = "v37" -> WithV(h, 37)
      [] e = "v20" -> WithV(h, 20)
      [] e = "v0" -> WithV(h, 0)
      [] e = "v1" -> WithV(h, 1)
      [] e = "v36" -> WithV(h, 36)
      [] e = "rDigit" -> [h EXCEPT !.payload.rs = Sig(GarbageId, p.rs.over)]
      [] e = "rCase" -> [h EXCEPT !.payload.rs =
                            [signer |-> p.rs.signer, over |-> p.rs.over, form |-> "upper"]]
      [] e = "lowerCase" -> [h EXCEPT !.payload.from = Addr(p.from.id, "lower"),
                                      !.payload.to = Addr(p.to.id, "lower")]
      [] e = "valuePad" -> [h EXCEPT !.payload.value = [p.value EXCEPT !.pad = 1 - @]]
      [] e = "nonce31" -> Resigned(h, req, [id |-> 1, len |-> 31])
      [] e = "nonce33" -> Resigned(h, req, [id |-> 1, len |-> 33])

\* what arrives is the header with one alteration
Tamper ==
    /\ vpc = "ready"
    /\ vin.edit = "none"
    /\ \E e \in Edits : vin' = [vin EXCEPT !.h = Edit(vin.h, vin.req, e), !.edit = e]
    /\ UNCHANGED <<chainVars, slot, vout, vpc>>

\* the next POST /verify for the same header
VerifyAgain ==
    /\ vpc = "done"
    /\ vout' = None
    /\ vpc' = "ready"
    /\ UNCHANGED <<chainVars, slot, vin>>

NextClient ==
    \/ CreatePayment
    \/ Tamper
    \/ VerifyCall
    \/ VerifyAgain

SpecClient == InitClient /\ [][NextClient]_vars

(***************************************************************************)
(* The facilitator's two endpoints together: the protocol of Spec, and     *)
(* POST /verify calls for the header P1 as it is or altered, against the   *)
(* requirements of a route, with or without their EIP-712 domain.  The     *)
(* handlers are blocking coroutines on one event loop, so /verify runs     *)
(* when no /settle call is in progress; its response stays in vout.        *)
(***************************************************************************)
\* variant: /verify answers an invalid payment with a client error
verify_response_rejecting(res) ==
    IF res = Raised
    THEN [status |-> 500, isValid |-> FALSE, invalidReason |-> None]
    ELSE [status |-> IF res.valid THEN 200 ELSE 400, isValid |-> res.valid,
          invalidReason |-> res.reason]

\* facilitator_server.py:139-156: the response of /verify to a result of the
\* verifier, and to an exception (154-156)
verify_response(res) ==
    IF res = Raised
    THEN [status |-> 500, isValid |-> FALSE, invalidReason |-> None]
    ELSE [status |-> 200, isValid |-> res.valid, invalidReason |-> res.reason]

\* what is posted: P1 as the client made it, P1 with one alteration, P1 in a
\* broken encoding, or P1 against requirements that carry no domain
PostedEdits == {"version", "scheme", "network", "toDigit", "rDigit", "v20"}
PostedEncodings == {"badpad", "badjson"}
PostedCases == {"none", "nodomain"} \cup PostedEdits \cup PostedEncodings

Posted(c, req) ==
    IF c \in PostedEdits THEN Edit(HeaderOf("P1"), req, c)
    ELSE IF c \in PostedEncodings THEN [HeaderOf("P1") EXCEPT !.enc = c]
    ELSE HeaderOf("P1")

\* how a call of the verifier ended: raised, valid, or the reason's message
Outcome(res) == IF res = Raised THEN "raised" ELSE IF res.valid THEN "valid" ELSE res.reason.msg

\* facilitator_server.py:124-156: POST /verify.  rpcOk is whether the node
\* answers the verifier's read of the latest block; vin keeps whether that read
\* was made and failed, which is when the result is not the one of a node
\* that answers
PostVerify ==
    /\ vpc = "off"
    /\ \A i \in Slots : ~ InProgress(slot[i])
    /\ \E c \in PostedCases, path \in Routes, rpcOk \in BOOLEAN :
         LET route == RetryRequirements(path)
             req == IF c = "nodomain" THEN [route EXCEPT !.extra = None] ELSE route
             h == Posted(c, req)
             res == verify_payment(h, req, [up |-> rpcOk, time |-> chainTime])
             answered == verify_payment(h, req, [up |-> TRUE, time |-> chainTime])
         IN  /\ vin' = [kind |-> "VerificationRequest", rpcFailed |-> Outcome(res) # Outcome(answered)]
             /\ vout' = [result |-> res, response |-> verify_response(res)]
    /\ vpc' = "verified"
    /\ UNCHANGED <<chainVars, slot>>

NextFacilitator ==
    \/ Next
    \/ PostVerify

SpecFacilitator == Init /\ [][NextFacilitator]_vars

(***************************************************************************)
(* What an input violates, read off the input itself.  CheckOrder is the   *)
(* order of the checks: the nine of the specification, and between them    *)
(* the decoding of the inner payload ("payload": the scheme is one the     *)
(* verifier implements, the payload parses, the addresses are well formed) *)
(* and the read of the chain tip ("tip").                                  *)
(***************************************************************************)
CheckOrder == <<"decode", "version", "scheme", "network", "payload", "recipient",
                "amount", "tip", "window", "domain", "signature">>

Fails(in, check) ==
    LET h == in.h
        req == in.req
        p == in.h.payload
    IN  CASE check = "decode" -> h.enc # "ok"
          [] check = "version" -> h.x402Version # 1
          [] check = "scheme" -> h.scheme # req.scheme
          [] check = "network" -> h.network # req.network
          [] check = "payload" -> h.scheme # "exact" \/ ~ h.inner
                                    \/ p.to.form = "bad" \/ p.from.form = "bad"
          [] check = "recipient" -> p.to.id # req.payTo.id
          [] check = "amount" -> p.value # req.maxAmountRequired
          [] check = "tip" -> ~ in.chain.up
          [] check = "window" -> ~ (p.validAfter.n <= in.chain.time
                                     /\ in.chain.time <= p.validBefore.n)
          [] check = "domain" -> IF req.extra = None THEN TRUE
                                 ELSE req.extra.name = "" \/ req.extra.version = ""
          [] check = "signature" ->
                p.rs # Sig(p.from.id,
                           [name |-> "USDC", version |-> "2", chainId |-> 84532,
                            verifyingContract |-> "T", from |-> p.from.id, to |-> p.to.id,
                            value |-> p.value.n, validAfter |-> p.validAfter.n,
                            validBefore |-> p.validBefore.n, nonce |-> p.nonce])

Failing(in) == {CheckOrder[k] : k \in {j \in 1..Len(CheckOrder) : Fails(in, CheckOrder[j])}}

Position(check) == CHOOSE k \in 1..Len(CheckOrder) : CheckOrder[k] = check
Before(check) == {CheckOrder[k] : k \in 1..(Position(check) - 1)}

FirstFailing(in) ==
    CHOOSE c \in Failing(in) : \A d \in Failing(in) : Position(c) <= Position(d)

\* the checks a reason can come from
ReasonChecks(msg) ==
    CASE msg \in {"Invalid base64 encoding: ", "Verification error: "} -> {"decode"}
      [] msg = "Unsupported protocol version: " -> {"version"}
      [] msg = "Scheme mismatch: expected , got " -> {"scheme"}
      [] msg = "Network mismatch: expected , got " -> {"network"}
      [] msg \in {"Unsupported payment scheme: ", "Invalid address format: "} -> {"payload"}
      [] msg = "Exact scheme verification error: " -> {"payload", "tip"}
      [] msg = "Recipient mismatch: expected , got " -> {"recipient"}
      [] msg = "Amount mismatch: expected , got " -> {"amount"}
      [] msg \in {"Payment not yet valid: current time  < validAfter ",
                  "Payment expired: current time  > validBefore "} -> {"window"}
      [] msg \in {"Missing EIP-712 domain parameters in extra",
                  "Missing name or version in extra",
                  "Invalid network format: "} -> {"domain"}
      [] msg \in {"Signature verification error: ",
                  "Signature verification failed: recovered , expected "} -> {"signature"}
      [] OTHER -> {}

ReasonMsg(result) == IF result.valid THEN "" ELSE result.reason.msg

VerifyDone == vpc = "done"

(***************************************************************************)
(* Properties of the protocol (Spec).                                      *)
(***************************************************************************)
Served(s) == s.mres # None /\ s.mres.served
Answered(s) == s.fres # None
SameAuthorization(s, t) ==
    /\ s.hdr # "none"
    /\ t.hdr # "none"
    /\ AuthKey(Payload(s)) = AuthKey(Payload(t))

\* C1: the wrapped handler is invoked for a request only if the request
\* carried X-PAYMENT and the facilitator's /settle answered it with HTTP 200
\* and success = true; a request without the header, one whose /settle call
\* failed, timed out, was refused or could not be made is never served.
HandlerOnlyAfterSettlement ==
    \A i \in Slots :
        Served(slot[i]) =>
            /\ slot[i].hdr # "none"
            /\ Answered(slot[i])
            /\ slot[i].fres.status = 200
            /\ slot[i].fres.success

\* a request was served, and another one with a payment was not
HandlerWasInvoked ==
    \E i, j \in Slots :
        /\ Served(slot[i])
        /\ slot[j].pc = "done"
        /\ slot[j].hdr # "none"
        /\ ~ Served(slot[j])

\* C2: of the /settle calls made for one (from, nonce), in whatever order
\* and interleaving, at most one returns success = true.
SettlesAtMostOnce ==
    \A i, j \in Slots :
        (/\ i # j
         /\ Answered(slot[i])
         /\ Answered(slot[j])
         /\ slot[i].fres.success
         /\ slot[j].fres.success)
        => ~ SameAuthorization(slot[i], slot[j])

\* two calls for one (from, nonce) went through the settler: one succeeded,
\* the other's transaction was mined too and it was told so
SecondSettlementFailed ==
    \E i, j \in Slots :
        /\ i # j
        /\ SameAuthorization(slot[i], slot[j])
        /\ Answered(slot[i])
        /\ Answered(slot[j])
        /\ slot[i].fres.success
        /\ ~ slot[j].fres.success
        /\ slot[j].stage = "wait"
        /\ slot[j].fres.error.msg = "Transaction reverted"

\* C3: of the requests that carry one and the same X-PAYMENT header, the
\* middleware invokes the wrapped handler for at most one.
OnePaymentOneResponse ==
    \A i, j \in Slots :
        (/\ i # j
         /\ slot[i].hdr # "none"
         /\ slot[i].hdr = slot[j].hdr)
        => ~ (Served(slot[i]) /\ Served(slot[j]))

\* the same header was presented twice: the first request was served, the
\* second got as far as the settler's nonce check and was refused
ReplayRefused ==
    \E i, j \in Slots :
        /\ i # j
        /\ slot[i].hdr # "none"
        /\ slot[i].hdr = slot[j].hdr
        /\ Served(slot[i])
        /\ slot[j].pc = "done"
        /\ slot[j].stage = "precheck"
        /\ ~ Served(slot[j])

\* the payment of slot s verifies against its route at some chain time so far
EverValid(s) ==
    \E t \in 1..chainTime :
        verify_payment(HeaderOf(s.hdr), RouteRequirements(s.route),
                       [up |-> TRUE, time |-> t]).valid

AccountNonceSerialized ==
    \A i, j \in Slots :
        (/\ i # j
         /\ slot[i].pc = "wait"
         /\ slot[j].pc = "wait")
        => slot[i].tx.nonce # slot[j].tx.nonce

\* the /settle call of slot s got to submitting its transaction and ended
\* neither on a failure of the connection to the node nor on a receipt that
\* did not arrive in time
Submitted(s) ==
    /\ s.pc = "done"
    /\ s.stage \in {"send", "wait"}
    /\ s.fres.error.detail # "connection error"
    /\ s.fres.error.msg # "Transaction confirmation timeout: "

\* C6: when two attempts for one authorization have both passed the nonce
\* pre-check and gone on to submit their transactions, and one has
\* succeeded, the other returns success = false as a reverted transaction
\* whose txHash is known.
DoubleSubmitLoserReverted ==
    \A i, j \in Slots :
        (/\ i # j
         /\ SameAuthorization(slot[i], slot[j])
         /\ Submitted(slot[i])
         /\ Submitted(slot[j])
         /\ slot[i].fres.success)
        => /\ ~ slot[j].fres.success
           /\ slot[j].fres.error.msg = "Transaction reverted"
           /\ slot[j].fres.txHash # None

(***************************************************************************)
(* Properties of the verifier (SpecVerify).                                *)
(***************************************************************************)
\* C7: the checks are applied in the order decode, version, scheme,
\* network, recipient, amount, time window, domain parameters, signature:
\* a payment is valid iff it violates none, and the reason returned for one
\* that violates several is the reason of the first it violates in that
\* order.
ChecksInOrder ==
    VerifyDone =>
        IF Failing(vin) = {}
        THEN vout.valid
        ELSE /\ ~ vout.valid
             /\ FirstFailing(vin) \in ReasonChecks(vout.reason.msg)

\* a payment with the wrong version, scheme, recipient and amount is
\* refused for its version
SeveralChecksFail ==
    /\ VerifyDone
    /\ {"version", "scheme", "recipient", "amount"} \subseteq Failing(vin)
    /\ ReasonMsg(vout) = "Unsupported protocol version: "

\* the input passes every check before the time window
ReachesWindow(in) == Failing(in) \cap Before("window") = {}

\* C8: now is the chain tip's timestamp and the window is inclusive at both
\* ends: a payment that reaches the window check is refused as not yet valid
\* when now < validAfter, as expired when validAfter <= now and
\* now > validBefore, and passes the check when validAfter <= now <=
\* validBefore (so validAfter = now and validBefore = now pass, validAfter =
\* now + 1 and validBefore = now - 1 do not).
TimeWindowInclusive ==
    (VerifyDone /\ ReachesWindow(vin)) =>
        LET now == vin.chain.time
            validAfter == vin.h.payload.validAfter.n
            validBefore == vin.h.payload.validBefore.n
        IN  /\ now < validAfter =>
                /\ ~ vout.valid
                /\ vout.reason.msg = "Payment not yet valid: current time  < validAfter "
                /\ vout.reason.a = now
                /\ vout.reason.b = validAfter
            /\ (validAfter <= now /\ now > validBefore) =>
                /\ ~ vout.valid
                /\ vout.reason.msg = "Payment expired: current time  > validBefore "
                /\ vout.reason.a = now
                /\ vout.reason.b = validBefore
            /\ (validAfter <= now /\ now <= validBefore) =>
                /\ "window" \notin ReasonChecks(ReasonMsg(vout))
                /\ vout.valid <=> Failing(vin) \cap {"domain", "signature"} = {}

\* a window of the single instant now is accepted
WindowOfOneInstant ==
    /\ VerifyDone
    /\ ReachesWindow(vin)
    /\ vin.h.payload.validAfter.n = vin.chain.time
    /\ vin.h.payload.validBefore.n = vin.chain.time
    /\ vout.valid

\* C9: a payment whose value is not the required amount, below it or above
\* it, is invalid, with the reason "Amount mismatch: expected <required>,
\* got <value>" when it passes the checks before the amount; and a payment
\* of value "0" that is otherwise in order is valid iff maxAmountRequired
\* is "0".
ExactAmount ==
    VerifyDone =>
        LET value == vin.h.payload.value
            required == vin.req.maxAmountRequired
        IN  /\ value.n # required.n => ~ vout.valid
            /\ (value.n # required.n /\ Failing(vin) \cap Before("amount") = {}) =>
                /\ vout.reason.msg = "Amount mismatch: expected , got "
                /\ vout.reason.a = required
                /\ vout.reason.b = value
            /\ (value = Dec(0) /\ Failing(vin) \ {"amount"} = {}) =>
                (vout.valid <=> required = Dec(0))

\* an over-payment is refused for its amount
OverpaymentRefused ==
    /\ VerifyDone
    /\ vin.h.payload.value.n > vin.req.maxAmountRequired.n
    /\ ReasonMsg(vout) = "Amount mismatch: expected , got "

\* C10 as stated: every payment whose `to` is not payTo is invalid with a
\* reason containing "Recipient mismatch".
RecipientMismatchAlwaysReported ==
    (VerifyDone /\ vin.h.payload.to.id # vin.req.payTo.id) =>
        /\ ~ vout.valid
        /\ vout.reason.msg = "Recipient mismatch: expected , got "

\* C10: every payment whose `to` is not payTo (as addresses, whatever the
\* case they are written in) is invalid, and its reason is "Recipient
\* mismatch: ..." with the two checksummed addresses when the payment passes
\* the checks before the recipient binding; a `to` that is payTo in another
\* case is never refused for its recipient.
RecipientBound ==
    VerifyDone =>
        LET to == vin.h.payload.to
            payTo == vin.req.payTo
        IN  /\ to.id # payTo.id => ~ vout.valid
            /\ (to.id # payTo.id /\ Failing(vin) \cap Before("recipient") = {}) =>
                /\ vout.reason.msg = "Recipient mismatch: expected , got "
                /\ vout.reason.a = Addr(payTo.id, "checksum")
                /\ vout.reason.b = Addr(to.id, "checksum")
            /\ to.id = payTo.id =>
                ReasonMsg(vout) # "Recipient mismatch: expected , got "

\* a payment to another address is refused for its recipient
WrongRecipientRefused ==
    /\ VerifyDone
    /\ vin.h.payload.to = OtherAddress
    /\ ReasonMsg(vout) = "Recipient mismatch: expected , got "

(***************************************************************************)
(* Claims about the client and the verifier together (SpecClient).         *)
(***************************************************************************)
Unaltered == vin.edit = "none"

\* C11: a header made by create_payment for requirements with valid
\* duration d at reference time now is accepted by verify_payment against
\* the same requirements whenever the chain time the verifier reads lies in
\* [now, now + d].
CreatedPaymentAccepted ==
    (/\ VerifyDone
     /\ Unaltered
     /\ vin.chain.up
     /\ vin.now <= vin.chain.time
     /\ vin.chain.time <= vin.now + vin.d) => vout = Ok

\* a payment verified at the last instant of its window, now + d with d > 0
AcceptedAtWindowEnd ==
    /\ VerifyDone
    /\ Unaltered
    /\ vin.chain.up
    /\ vin.d > 0
    /\ vin.chain.time = vin.now + vin.d
    /\ vin.req.payTo.form = "lower"
    /\ vout.valid

\* the header as the client made it, before any alteration
Original == create_exact_payment(vin.req, ClientAddress, vin.now, vin.d, Nonce(1))
OriginalValid == verify_payment(Original, vin.req, vin.chain).valid

\* C12 as stated: a header that verifies as valid, with any single byte of
\* its decoded JSON payload changed and encoded again, verifies as invalid.
SingleByteEditRejected ==
    (VerifyDone /\ OriginalValid /\ vin.edit \in SingleByteEdits) => ~ vout.valid

\* C13 as stated: every payload whose v is neither 27 nor 28 is rejected,
\* v = 0 or 1 next to an r and s that otherwise match included.
OnlyCanonicalVAccepted ==
    (VerifyDone /\ vin.h.payload.v \notin {27, 28}) => ~ vout.valid

\* the reasons of the structural failures, those raised while the header and
\* its inner payload are parsed (verification.py:50, 99 with 80-81, 140-142)
StructuralReasons == {"Invalid base64 encoding: ", "Verification error: ",
                      "Exact scheme verification error: "}

\* C14 as stated: every payload whose nonce is not exactly 32 bytes is
\* rejected with a structural error, raised before the recipient, amount,
\* time-window and signature checks.
NonceLengthStructural ==
    (VerifyDone /\ vin.h.payload.nonce.len # 32) =>
        /\ ~ vout.valid
        /\ vout.reason.msg \in StructuralReasons

\* alterations that leave every typed-data input as it was and change only
\* how an address or the amount is written
SameInputs == {"none", "lowerCase", "valuePad"}

\* C15: for the same typed-data inputs the digest the client signs in
\* _create_exact_payment and the digest the verifier rebuilds in
\* _verify_eip3009_signature are one and the same, whether the addresses
\* come checksummed or not and however the decimal strings are written.
DigestsAgree ==
    (vin.h # NoHeader /\ vin.edit \in SameInputs) =>
        /\ vin.h.payload.rs.over =
             ClientDigest(vin.req, ClientAddress, vin.now - ClockSkew, vin.now + vin.d, Nonce(1))
        /\ VerifierDigest(vin.h.payload, vin.req) = vin.h.payload.rs.over

\* a payload with lower-case addresses, against requirements whose asset is
\* lower-case and whose amount has a leading zero, recovers the payer
LowerCaseAndPaddedVerified ==
    /\ VerifyDone
    /\ vin.edit = "lowerCase"
    /\ vin.req.asset.form = "lower"
    /\ vin.req.maxAmountRequired.pad = 1
    /\ vout.valid

\* C16: POST /verify changes no chain state: over a call the latest block,
\* the token's authorization state, the facilitator's transaction count,
\* the pool and the receipts are what they were, however many calls are
\* made; what the verifier gets from the chain is the latest block alone.
VerifyChangesNoChainState ==
    [][(vpc = "ready" /\ vpc' = "done") => UNCHANGED chainVars]_vars

\* a payment verified as valid whose authorization is still unused
VerifiedButUnused ==
    /\ VerifyDone
    /\ vout.valid
    /\ AuthKey(vin.h.payload) \notin authorizationState
    /\ mempool = {}

(***************************************************************************)
(* Claims about the middleware's responses (Spec).                         *)
(***************************************************************************)
NoPayment(s) == s.pc = "done" /\ s.hdr = "none"

\* C17: a request without X-PAYMENT is answered 402 with a
\* PaymentRequiredResponse whose x402Version is 1 and whose accepts holds
\* exactly the one requirements minted for the route: scheme "exact",
\* network "eip155:<chainId>", resource the request path, payTo and asset
\* those of the configuration; the facilitator is not called.
NoPaymentGets402 ==
    \A i \in Slots :
        NoPayment(slot[i]) =>
            LET s == slot[i] IN
            /\ s.mres.status = 402
            /\ s.mres.x402Version = 1
            /\ Len(s.mres.accepts) = 1
            /\ s.mres.accepts[1] = RouteRequirements(s.route)
            /\ s.mres.accepts[1].scheme = "exact"
            /\ s.mres.accepts[1].network = "eip155:84532"
            /\ s.mres.accepts[1].resource = s.route
            /\ s.mres.accepts[1].payTo = RESOURCE_SERVER_ADDRESS
            /\ s.mres.accepts[1].asset = TOKEN_CONTRACT_ADDRESS
            /\ ~ s.mres.served
            /\ s.fres = None
            /\ s.stage = "none"
            /\ s.tx = None

\* a request for /article without X-PAYMENT was answered with its price
ArticlePriceQuoted ==
    \E i \in Slots :
        /\ NoPayment(slot[i])
        /\ slot[i].route = "/article"
        /\ slot[i].mres.accepts[1].maxAmountRequired = Dec(50000)

FacilitatorRefused(s) == s.fres # None /\ s.fres.status # 200

\* C18 as stated: when the facilitator answers /settle with a status other
\* than 200, the middleware responds 402 with a body that holds the
\* original payment requirements together with an error string.
FacilitatorErrorKeepsRequirements ==
    \A i \in Slots :
        FacilitatorRefused(slot[i]) =>
            /\ slot[i].mres.status = 402
            /\ slot[i].mres.accepts = <<RouteRequirements(slot[i].route)>>
            /\ slot[i].mres.error # NoError

\* the middleware gave up on the /settle call before its answer came
TimedOut(s) == s.mres # None /\ s.mres.status = 408 /\ ~ s.mres.served
SettleFailed(s) == Answered(s) /\ s.fres.status = 200 /\ ~ s.fres.success

\* C19: when /settle answers 200 with success = false (a confirmation that
\* timed out, the transaction still pending, included) the middleware
\* responds 402 with the original requirements in accepts and the
\* facilitator's error string, and the resource is not served.
SettleFailureGets402 ==
    \A i \in Slots :
        (SettleFailed(slot[i]) /\ ~ TimedOut(slot[i])) =>
            /\ slot[i].mres.status = 402
            /\ slot[i].mres.x402Version = 1
            /\ slot[i].mres.accepts = <<RouteRequirements(slot[i].route)>>
            /\ slot[i].mres.error = slot[i].fres.error
            /\ slot[i].mres.error # NoError
            /\ ~ Served(slot[i])

\* a payment whose transaction was sent and not confirmed in time: the
\* request was answered 402 with the confirmation timeout as the error
PendingAnswered402 ==
    \E i \in Slots :
        /\ slot[i].stage = "wait"
        /\ slot[i].fres.txHash # None
        /\ slot[i].mres.status = 402
        /\ slot[i].mres.error.msg = "Transaction confirmation timeout: "

\* the middleware answers request i in this step
Responds(i) == slot[i].mres = None /\ slot'[i].mres # None
\* ... while its POST /settle is still without an answer
SettleCallOpen(i) == InProgress(slot[i]) /\ slot'[i].pc = slot[i].pc

SentToFacilitator(s) == s.req # None

\* C21: for one route and request path, the requirements the middleware
\* sends to the facilitator on the retry are equal, field by field, to the
\* requirements it returned in the 402 challenge.
RetrySameRequirements ==
    \A i, j \in Slots :
        (NoPayment(slot[i]) /\ SentToFacilitator(slot[j]) /\ slot[i].route = slot[j].route) =>
            LET a == slot[i].mres.accepts[1]
                b == slot[j].req
            IN  /\ a.scheme = b.scheme
                /\ a.network = b.network
                /\ a.maxAmountRequired = b.maxAmountRequired
                /\ a.resource = b.resource
                /\ a.description = b.description
                /\ a.mimeType = b.mimeType
                /\ a.payTo = b.payTo
                /\ a.maxTimeoutSeconds = b.maxTimeoutSeconds
                /\ a.asset = b.asset
                /\ a.extra = b.extra
                /\ a = b

\* a challenge for /article, then a retry for /article that reached the
\* facilitator
ChallengeThenRetry ==
    /\ NoPayment(slot[1])
    /\ slot[1].route = "/article"
    /\ SentToFacilitator(slot[2])
    /\ slot[2].route = "/article"
    /\ slot[2].fres # None

\* the wrapped handler was invoked and returned a value
HandlerReturned(s) == Served(s) /\ s.mres.error = NoError

Resubmitted(s) ==
    /\ s.settledBefore
    /\ Answered(s)
    /\ s.stage \notin {"fault", "verify"}
    /\ s.fres.error.detail # "connection error"

\* C23 as stated: the identical header of a payment that has settled,
\* submitted to /settle again, yields success = false with the error
\* "Authorization nonce already used", from the authorizationState
\* pre-check or from the revert on chain.
ResubmissionNonceUsed ==
    \A i \in Slots :
        Resubmitted(slot[i]) =>
            /\ ~ slot[i].fres.success
            /\ slot[i].fres.error.msg = "Authorization nonce already used"

(***************************************************************************)
(* The facilitator's answers to failures.                                  *)
(***************************************************************************)
\* the failures the verifier reports by a return, by the fixed part of the
\* message (verification.py:59-81, 107-137, 163-247)
ExpectedVerifyFailures ==
    {"Invalid base64 encoding: ", "Verification error: ", "Unsupported protocol version: ",
     "Scheme mismatch: expected , got ", "Network mismatch: expected , got ",
     "Recipient mismatch: expected , got ", "Amount mismatch: expected , got ",
     "Payment not yet valid: current time  < validAfter ",
     "Payment expired: current time  > validBefore ",
     "Signature verification failed: recovered , expected ",
     "Signature verification error: ", "Missing EIP-712 domain parameters in extra"}

\* the failures the settler reports by a return (settlement.py:153-216)
ExpectedSettleFailures ==
    {"Authorization nonce already used", "Gas estimation failed: ", "Gas price too high: ",
     "Transaction reverted", "Transaction confirmation timeout: "}

VerifyRefused(res) == res # None /\ Outcome(res) \in ExpectedVerifyFailures
SettleRefused(res) == res # None /\ ~ res.success /\ res.error.msg \in ExpectedSettleFailures

\* C24: every failure that the verifier or the settler reports by a return
\* (malformed envelope, version, scheme, network, recipient or amount
\* mismatch, validity window, signature, missing domain, used nonce, gas
\* estimation, gas price over the cap, revert, confirmation timeout) is
\* answered by /verify and by /settle with HTTP 200 and a body that says so:
\* isValid = false with the reason, or success = false with the error.
ExpectedFailuresAnswer200 ==
    /\ (vpc = "verified" /\ VerifyRefused(vout.result)) =>
          /\ vout.response.status = 200
          /\ vout.response.isValid = FALSE
          /\ vout.response.invalidReason # None
          /\ vout.response.invalidReason.msg = Outcome(vout.result)
    /\ \A i \in Slots :
          LET s == slot[i] IN
          /\ VerifyRefused(s.vres) =>
                /\ s.fres.status = 200
                /\ s.fres.success = FALSE
                /\ s.fres.error = Error("Verification failed: ", Outcome(s.vres))
          /\ SettleRefused(s.sres) =>
                /\ s.fres.status = 200
                /\ s.fres.success = FALSE
                /\ s.fres.error = s.sres.error
                /\ s.fres.error # NoError

\* a state in which /verify has refused a header that is not base64, one
\* /settle call has ended at the gas estimate and another at the verifier's
\* comparison of the amount
RefusalsAtBothEndpoints ==
    /\ vpc = "verified"
    /\ Outcome(vout.result) = "Invalid base64 encoding: "
    /\ \E i, j \in Slots :
          /\ SettleRefused(slot[i].sres) /\ slot[i].sres.error.msg = "Gas estimation failed: "
          /\ VerifyRefused(slot[j].vres)
          /\ Outcome(slot[j].vres) = "Amount mismatch: expected , got "

\* a /settle call in which an RPC request of the settler failed in transport
\* (get_transaction_count in build_transaction, or send_raw_transaction)
RpcFailedInSettle(s) == s.sres # None /\ s.sres.error.detail = "connection error"

\* C25 (as stated): an RPC transport failure during /verify or /settle (the
\* read of the latest block, the transaction count, the send) is answered
\* with HTTP 500, not with 200 and isValid = false or success = false.
RpcFailureAnswered500 ==
    /\ (vpc = "verified" /\ vin.rpcFailed) => vout.response.status = 500
    /\ \A i \in Slots : RpcFailedInSettle(slot[i]) => slot[i].fres.status = 500

\* C26: verify_payment and settle_payment never let an exception out: a call
\* ends with the pair (is_valid, reason), the reason present when is_valid
\* is false, or with the triple (success, error, tx_hash), the error present
\* when success is false; an RPC failure inside them ends so as well.
NeverRaises ==
    /\ vpc = "verified" =>
          /\ vout.result # Raised
          /\ vout.result.valid \in BOOLEAN
          /\ ~ vout.result.valid => vout.result.reason # None
          /\ vin.rpcFailed => ~ vout.result.valid
    /\ \A i \in Slots :
          LET s == slot[i] IN
          /\ s.vres # None =>
                /\ s.vres # Raised
                /\ s.vres.valid \in BOOLEAN
                /\ ~ s.vres.valid => s.vres.reason # None
          /\ s.sres # None =>
                /\ s.sres # Raised
                /\ s.sres.success \in BOOLEAN
                /\ ~ s.sres.success => s.sres.error # NoError
                /\ s.sres.success => s.sres.tx_hash # None
                /\ RpcFailedInSettle(s) => ~ s.sres.success /\ s.sres.tx_hash = None

\* the node has failed the verifier's read of the latest block in /verify
\* and a request of the settler in /settle
RpcFailuresReturned ==
    /\ vpc = "verified"
    /\ vin.rpcFailed
    /\ \E i \in Slots : RpcFailedInSettle(slot[i])

(***************************************************************************)
(* The client's calls.  An X402Client is called up to MaxCalls times, with *)
(* request_resource or with create_payment; the server's responses, the    *)
(* state of the client's RPC node and the two clocks are drawn when the    *)
(* call reads them.  vin holds what the running call was given and has     *)
(* read, vout what the client has done: the HTTP requests it sent, the     *)
(* payments it signed in this call, the nonces of all the payments it has  *)
(* emitted, and the call's result.                                         *)
(***************************************************************************)
MaxCalls == 2

\* client.py:108: valid_duration: int = 300
DEFAULT_VALID_DURATION == 300

\* an exception with the message msg; cause is the text of the exception
\* it was made from (f"...{str(e)}")
Raise(msg) == [kind |-> "Exception", msg |-> msg, cause |-> ""]
IsException(x) == "kind" \in DOMAIN x /\ x.kind = "Exception"

\* variant: the wrapping exception without the text of its cause
payment_failed_bare(e) == [kind |-> "Exception", msg |-> "Payment failed: ", cause |-> ""]

\* client.py:98-99: raise Exception(f"Payment failed: {str(e)}")
payment_failed(e) == [kind |-> "Exception", msg |-> "Payment failed: ", cause |-> e.msg]

\* an HTTP response: n tells the first response from the second
Response(n, status, body) == [kind |-> "Response", n |-> n, status |-> status, body |-> body]
Unparseable == [kind |-> "Unparseable"]
Accepts(seq) == [kind |-> "PaymentRequired", accepts |-> seq]

Statuses == {200, 402, 500}
UptoRequirements == [ChallengeRequirements("/weather") EXCEPT !.scheme = "upto"]
NoDomainRequirements == [ChallengeRequirements("/weather") EXCEPT !.extra = None]
LowerCaseRequirements == [ChallengeRequirements("/weather") EXCEPT !.payTo = Addr("R", "lower")]
Bodies ==
    {Unparseable, Accepts(<<>>), Accepts(<<ChallengeRequirements("/weather")>>),
     Accepts(<<ChallengeRequirements("/article"), ChallengeRequirements("/weather")>>),
     Accepts(<<UptoRequirements, ChallengeRequirements("/weather")>>),
     Accepts(<<NoDomainRequirements>>), Accepts(<<LowerCaseRequirements>>)}

\* the client's node: none configured, not connected, connected, or
\* connected and failing the read of the latest block
RpcStates == {"none", "down", "up", "drops"}
TipTimes == {ClockSkew, ClockSkew + 1}
LocalTimes == {ClockSkew + 1, ClockSkew + 2}

\* variant: the payment is made for the last of the accepted requirements
last_accepted(body) ==
    IF body = Unparseable THEN Raise("validation error")
    ELSE IF body.accepts = <<>> THEN Raise("No payment methods accepted")
    ELSE body.accepts[Len(body.accepts)]

\* client.py:79-86: the body of the 402 is parsed and accepts[0] is taken
first_accepted(body) ==
    IF body = Unparseable THEN Raise("validation error")
    ELSE IF body.accepts = <<>> THEN Raise("No payment methods accepted")
    ELSE Head(body.accepts)

\* variant: every payment carries the same nonce
token_fixed(nonces) == Nonce(1)

\* client.py:147: "0x" + secrets.token_hex(32), 32 random bytes: a value the
\* client has not drawn before
token_hex(nonces) == Nonce(Len(nonces) + 1)

\* client.py:105-123 and 140-167: create_payment.  rpc, tip and clock are
\* the state of the client's node, the timestamp of its latest block and the
\* local clock.
create_payment(req, account, valid_duration, rpc, tip, clock, nonce) ==
    IF req.scheme # "exact" THEN Raise("Unsupported payment scheme: ")
    ELSE IF rpc = "drops" THEN Raise("connection error")
    ELSE IF req.extra = None THEN Raise("Missing EIP-712 domain parameters in extra")
    ELSE IF req.extra.name = "" \/ req.extra.version = "" THEN Raise("Missing name or version in extra")
    ELSE IF ParseChainId(req.network) < 0 THEN Raise("Invalid network format: ")
    ELSE create_exact_payment(req, account, IF rpc = "up" THEN tip ELSE clock,
                              valid_duration, nonce)

NoCall == [op |-> "none", autoPay |-> FALSE, first |-> None, second |-> None, req |-> None,
           d |-> 0, rpc |-> "none", tip |-> 0, clock |-> 0]

InitRequest ==
    /\ chainTime = 1
    /\ authorizationState = {}
    /\ txCount = 0
    /\ mempool = {}
    /\ receipts = {}
    /\ slot = [i \in Slots |-> IdleSlot]
    /\ vin = NoCall
    /\ vout = [calls |-> 0, sent |-> <<>>, signed |-> <<>>, nonces |-> <<>>, result |-> None]
    /\ vpc = "idle"

Callable == vpc \in {"idle", "returned"} /\ vout.calls < MaxCalls

\* client.py:56-74: request_resource(url, auto_pay) is called
CallRequestResource ==
    /\ Callable
    /\ \E autoPay \in BOOLEAN :
         vin' = [NoCall EXCEPT !.op = "request_resource", !.autoPay = autoPay]
    /\ vout' = [vout EXCEPT !.calls = @ + 1, !.sent = <<>>, !.signed = <<>>, !.result = None]
    /\ vpc' = "first"
    /\ UNCHANGED <<chainVars, slot>>

\* client.py:75: the initial request; an exception of requests leaves the
\* function as it is
FirstRequest ==
    /\ vpc = "first"
    /\ \E answered \in BOOLEAN, status \in Statuses, body \in Bodies :
         IF answered
         THEN /\ vin' = [vin EXCEPT !.first = Response(1, status, body)]
              /\ vout' = [vout EXCEPT !.sent = Append(@, NoHeader)]
              /\ vpc' = "answered"
         ELSE /\ vin' = vin
              /\ vout' = [vout EXCEPT !.sent = Append(@, NoHeader),
                                      !.result = Raise("connection error")]
              /\ vpc' = "returned"
    /\ UNCHANGED <<chainVars, slot>>

\* variant: a 402 is paid whether auto_pay is set or not
pays_every_402(response, auto_pay) == response.status = 402

\* client.py:78: if response.status_code == 402 and auto_pay
payment_wanted(response, auto_pay) == response.status = 402 /\ auto_pay

\* client.py:78 and 101: a response that is not to be paid is returned
ReturnUnpaid ==
    /\ vpc = "answered"
    /\ ~ payment_wanted(vin.first, vin.autoPay)
    /\ vout' = [vout EXCEPT !.result = vin.first]
    /\ vpc' = "returned"
    /\ UNCHANGED <<chainVars, slot, vin>>

\* client.py:79-86 and 98-99: the 402 is read
ReadChallenge ==
    /\ vpc = "answered"
    /\ payment_wanted(vin.first, vin.autoPay)
    /\ LET req == first_accepted(vin.first.body) IN
         IF IsException(req)
         THEN /\ vout' = [vout EXCEPT !.result = payment_failed(req)]
              /\ vpc' = "returned"
              /\ vin' = vin
         ELSE /\ vin' = [vin EXCEPT !.req = req, !.d = DEFAULT_VALID_DURATION]
              /\ vpc' = "pay"
              /\ vout' = vout
    /\ UNCHANGED <<chainVars, slot>>

\* client.py:88-89 and 98-99: create_payment(payment_req)
PayChallenge ==
    /\ vpc = "pay"
    /\ \E rpc \in RpcStates, tip \in TipTimes, clock \in LocalTimes :
         LET nonce == token_hex(vout.nonces)
             h == create_payment(vin.req, ClientAddress, vin.d, rpc, tip, clock, nonce)
         IN  /\ vin' = [vin EXCEPT !.rpc = rpc, !.tip = tip, !.clock = clock]
             /\ IF IsException(h)
                THEN /\ vout' = [vout EXCEPT !.result = payment_failed(h)]
                     /\ vpc' = "returned"
                ELSE /\ vout' = [vout EXCEPT !.signed = Append(@, h),
                                             !.nonces = Append(@, nonce)]
                     /\ vpc' = "retry"
    /\ UNCHANGED <<chainVars, slot>>

\* client.py:91-99: the request is sent again with X-PAYMENT, and its
\* response is the result
RetryWithPayment ==
    /\ vpc = "retry"
    /\ \E answered \in BOOLEAN, status \in Statuses :
         LET sent == Append(vout.sent, vout.signed[Len(vout.signed)]) IN
         IF answered
         THEN /\ vin' = [vin EXCEPT !.second = Response(2, status, Unparseable)]
              /\ vout' = [vout EXCEPT !.sent = sent,
                                      !.result = Response(2, status, Unparseable)]
         ELSE /\ vin' = vin
              /\ vout' = [vout EXCEPT !.sent = sent,
                                      !.result = payment_failed(Raise("connection error"))]
    /\ vpc' = "returned"
    /\ UNCHANGED <<chainVars, slot>>

\* client.py:105-123: create_payment(payment_requirements, valid_duration)
\* is called by the application
CallCreatePayment ==
    /\ Callable
    /\ \E req \in {ChallengeRequirements("/weather"), UptoRequirements, NoDomainRequirements,
                   LowerCaseRequirements},
          d \in Durations, rpc \in RpcStates, tip \in TipTimes, clock \in LocalTimes :
         LET nonce == token_hex(vout.nonces)
             h == create_payment(req, ClientAddress, d, rpc, tip, clock, nonce)
         IN  /\ vin' = [NoCall EXCEPT !.op = "create_payment", !.req = req, !.d = d,
                                      !.rpc = rpc, !.tip = tip, !.clock = clock]
             /\ vout' = IF IsException(h)
                        THEN [vout EXCEPT !.calls = @ + 1, !.sent = <<>>, !.signed = <<>>,
                                          !.result = h]
                        ELSE [vout EXCEPT !.calls = @ + 1, !.sent = <<>>, !.signed = <<h>>,
                                          !.nonces = Append(@, nonce), !.result = h]
    /\ vpc' = "returned"
    /\ UNCHANGED <<chainVars, slot>>

NextRequest ==
    \/ CallRequestResource
    \/ FirstRequest
    \/ ReturnUnpaid
    \/ ReadChallenge
    \/ PayChallenge
    \/ RetryWithPayment
    \/ CallCreatePayment

SpecRequest == InitRequest /\ [][NextRequest]_vars

(***************************************************************************)
(* What request_resource and create_payment do.                            *)
(***************************************************************************)
Requesting == vin.op = "request_resource"
Returned == vpc = "returned"
IsResponse(x) == "kind" \in DOMAIN x /\ x.kind = "Response"

\* h is a payment for the requirements req: their scheme, network, recipient
\* and amount, signed by the client under their domain
PaymentFor(h, req) ==
    /\ h.scheme = req.scheme
    /\ h.network = req.network
    /\ h.payload.to.id = req.payTo.id
    /\ h.payload.value = req.maxAmountRequired
    /\ h.payload.rs = Sig(ClientAddress.id, VerifierDigest(h.payload, req))

\* C27: request_resource sends at most two HTTP requests and signs at most
\* one payment; the first request carries no payment; a first response that
\* is not a 402, or any first response when auto_pay is false, is returned
\* as it is with nothing signed; a second request is sent only after a 402
\* with auto_pay, it carries the one payment signed, made for accepts[0],
\* and its response is the result whatever its status.
RequestResourceFlow ==
    Requesting =>
      /\ Len(vout.sent) <= 2
      /\ Len(vout.signed) <= 1
      /\ Len(vout.sent) >= 1 => vout.sent[1] = NoHeader
      /\ (Returned /\ vin.first # None /\ ~ (vin.first.status = 402 /\ vin.autoPay)) =>
            /\ vout.result = vin.first
            /\ Len(vout.sent) = 1
            /\ vout.signed = <<>>
      /\ Len(vout.sent) = 2 =>
            /\ vin.first.status = 402
            /\ vin.autoPay
            /\ Len(vout.signed) = 1
            /\ vout.sent[2] = vout.signed[1]
            /\ PaymentFor(vout.signed[1], Head(vin.first.body.accepts))
      /\ (Returned /\ vin.second # None) =>
            /\ Len(vout.sent) = 2
            /\ vout.result = vin.second
      /\ (Returned /\ IsResponse(vout.result)) => vout.result \in {vin.first, vin.second}

\* the retry of a paid request was answered 402 again, and that response is
\* the result
SecondResponseReturned ==
    /\ Requesting
    /\ Returned
    /\ Len(vout.sent) = 2
    /\ Len(vin.first.body.accepts) = 2
    /\ vout.result = vin.second
    /\ vout.result.status = 402

\* what create_payment gives for what the running call has read
Construction ==
    create_payment(vin.req, ClientAddress, vin.d, vin.rpc, vin.tip, vin.clock,
                   token_hex(vout.nonces))

ChallengeRead == Requesting /\ Returned /\ vin.first # None /\ vin.first.status = 402 /\ vin.autoPay
NothingPaid == Len(vout.sent) = 1 /\ vout.sent[1] = NoHeader /\ vout.signed = <<>>

\* C28: when the 402 lists no requirements, or the payment for accepts[0]
\* cannot be constructed (unsupported scheme, missing domain, failing read
\* of the latest block), request_resource raises an exception whose message
\* names the cause ("Payment failed: " followed by the cause's own message),
\* sends no second request and no X-PAYMENT header.
PaymentFailuresReported ==
    ChallengeRead =>
      /\ (vin.first.body # Unparseable /\ vin.first.body.accepts = <<>>) =>
            /\ vout.result = [kind |-> "Exception", msg |-> "Payment failed: ",
                              cause |-> "No payment methods accepted"]
            /\ NothingPaid
      /\ (vin.req # None /\ IsException(Construction)) =>
            /\ vout.result = [kind |-> "Exception", msg |-> "Payment failed: ",
                              cause |-> Construction.msg]
            /\ Construction.msg # ""
            /\ NothingPaid

\* the 402 asked for a scheme the client does not have, and the call has
\* raised
UnsupportedSchemeRaised ==
    /\ ChallengeRead
    /\ vin.req = UptoRequirements
    /\ IsException(vout.result)
    /\ vout.result.cause = "Unsupported payment scheme: "

\* client.py:140-144: the reference time of the call
ReferenceTime == IF vin.rpc = "up" THEN vin.tip ELSE vin.clock

\* C29: a payment that create_payment emits for requirements req with
\* duration d, at reference time now (the timestamp of the latest block when
\* the client's node is connected, its local clock otherwise), has
\* x402Version 1, the scheme and network of req, from = the client's
\* address, to = the address req.payTo, value = req.maxAmountRequired,
\* validAfter = now - 10, validBefore = now + d, and a nonce of 32 bytes that
\* no earlier payment of the client carries.
PaymentEnvelope ==
    /\ vout.signed # <<>> =>
          LET h == vout.signed[Len(vout.signed)]
              p == h.payload
          IN  /\ h.x402Version = 1
              /\ h.scheme = vin.req.scheme
              /\ h.network = vin.req.network
              /\ p.from = ClientAddress
              /\ p.to = to_checksum_address(vin.req.payTo)
              /\ p.value = vin.req.maxAmountRequired
              /\ p.validAfter = Dec(ReferenceTime - 10)
              /\ p.validBefore = Dec(ReferenceTime + vin.d)
              /\ p.nonce = vout.nonces[Len(vout.nonces)]
              /\ p.nonce.len = 32
    /\ \A i, j \in 1..Len(vout.nonces) : i # j => vout.nonces[i] # vout.nonces[j]

\* the client's second payment, made by create_payment on its local clock
\* (the node is not connected) for two seconds and a lower-case payTo
SecondPaymentOnLocalClock ==
    /\ vin.op = "create_payment"
    /\ vin.rpc = "down"
    /\ vin.tip # vin.clock
    /\ vin.d = 2
    /\ vin.req = LowerCaseRequirements
    /\ Len(vout.nonces) = 2
    /\ vout.signed # <<>>

(***************************************************************************)
(* The fields of the requirements that the verifier does not read.         *)
(***************************************************************************)
\* the requirements req with any of resource, description, mimeType,
\* outputSchema and maxTimeoutSeconds written otherwise
InformationalVariants(req) ==
    {[req EXCEPT !.resource = r, !.description = ds, !.mimeType = m, !.outputSchema = o,
                 !.maxTimeoutSeconds = t] :
        r \in {req.resource, "/article"}, ds \in {req.description, ""},
        m \in {req.mimeType, "text/html"}, o \in {None, [type |-> "object"]},
        t \in {req.maxTimeoutSeconds, 1}}

\* C30: the verifier's result for a header is the same for all requirements
\* that differ only in resource, description, mimeType, outputSchema and
\* maxTimeoutSeconds: a window longer than maxTimeoutSeconds is accepted, and
\* a header signed for one path is accepted for another path with the same
\* scheme, network, payTo, asset, amount and domain.
InformationalFieldsIgnored ==
    VerifyDone =>
        \A req \in InformationalVariants(vin.req) : verify_payment(vin.h, req, vin.chain) = vout

\* a header made for /weather with a window of more than ten seconds is
\* valid, and valid as well for /article with maxTimeoutSeconds = 1
AcceptedForOtherPath ==
    /\ VerifyDone
    /\ vout = Ok
    /\ vin.req.resource = "/weather"
    /\ vin.h.payload.validBefore.n - vin.h.payload.validAfter.n > 1
    /\ verify_payment(vin.h, [vin.req EXCEPT !.resource = "/article", !.maxTimeoutSeconds = 1],
                      vin.chain) = Ok

(***************************************************************************)
(* The settler on its own: settle_payment is called on one PaymentSettler  *)
(* (settlement.py:58-111) for the payments P1 and P2, with or without      *)
(* waiting for confirmation, by a caller that has not asked the verifier.  *)
(* The settler was built with a gas price cap or with none (0), and every  *)
(* call has that cap.  The calls run against the chain of the protocol     *)
(* model; of a slot, the fields of the settler's call are used and mres    *)
(* says that no middleware is waiting for it.                              *)
(***************************************************************************)
NoMiddleware == [kind |-> "NoMiddleware"]

\* settlement.py:79-85: settle_payment(payment_payload, payment_requirements,
\* wait_for_confirmation, timeout) is called
CallSettle(i) ==
    /\ MayArrive(i)
    /\ \E h \in {x \in HeaderIds : MayPresent(i, x)}, wait \in BOOLEAN, cap \in 0..MaxGasPrice :
         /\ \A j \in 1..(i - 1) : slot[j].cap = cap
         /\ slot' = [slot EXCEPT ![i] =
                       [@ EXCEPT !.pc = "precheck", !.route = "/weather", !.hdr = h,
                                 !.req = RouteRequirements("/weather"),
                                 !.settledBefore = AlreadySettled(h),
                                 !.wait = wait, !.cap = cap, !.mres = NoMiddleware]]
    /\ UNCHANGED <<chainVars, verifyVars>>

NextSettler ==
    \/ \E i \in Slots : CallSettle(i)
    \/ \E i \in Slots : CheckAuthorizationState(i)
    \/ \E i \in Slots : BuildTransaction(i)
    \/ \E i \in Slots : EstimateGas(i)
    \/ \E i \in Slots : SendRawTransaction(i)
    \/ \E i \in Slots : ReceiveReceipt(i)
    \/ \E i \in Slots : ReceiptTimeout(i)
    \/ MineTransaction
    \/ Tick

SpecSettler == Init /\ [][NextSettler]_vars

\* every RPC request of a call returns or fails, and the wait for the receipt
\* ends with the receipt or after `timeout` seconds
SettlerFairness ==
    \A i \in Slots :
        /\ WF_vars(CheckAuthorizationState(i))
        /\ WF_vars(BuildTransaction(i))
        /\ WF_vars(EstimateGas(i))
        /\ WF_vars(SendRawTransaction(i))
        /\ WF_vars(ReceiveReceipt(i) \/ ReceiptTimeout(i))

FairSpecSettler == SpecSettler /\ SettlerFairness

(***************************************************************************)
(* Properties of the settler (SpecSettler).                                *)
(***************************************************************************)
Ended(s) == s.pc = "done" /\ s.sres # None

\* C31: when authorizationState(from, nonce) answers true, settle_payment
\* returns (False, "Authorization nonce already used", None) and has made no
\* other RPC request: no transaction count read, no gas estimate, no
\* broadcast.
NonceUsedEndsCall ==
    \A i \in Slots :
        slot[i].is_used =>
            /\ Ended(slot[i])
            /\ slot[i].sres = SettleResult(FALSE, Error("Authorization nonce already used", ""),
                                           None)
            /\ slot[i].rpcs = {"authorizationState"}
            /\ slot[i].sent = 0
            /\ slot[i].tx = None

\* P1 was settled by one call, and a later call for P1 was answered true by
\* authorizationState
SecondCallFindsNonceUsed ==
    \E i, j \in Slots :
        /\ Ended(slot[i]) /\ slot[i].sres.success /\ slot[i].hdr = "P1"
        /\ slot[j].hdr = "P1" /\ slot[j].settledBefore /\ slot[j].is_used

\* the call of slot s has passed the pre-check: authorizationState was asked
\* and did not answer true
PassedPrecheck(s) == "authorizationState" \in s.rpcs /\ ~ s.is_used

\* C32: a failing authorizationState call does not reject the settlement.
\* Every step of the pre-check either finds the answer true or goes on to
\* build the transaction; a call that has passed the pre-check is never
\* ended with "Authorization nonce already used", also when the nonce was
\* used before it or became used after it: it ends at the gas estimate, at
\* the node, or with a receipt; and no broadcast is made without the
\* transaction count and the gas estimate before it.
PrecheckIsAdvisory ==
    /\ [][\A i \in Slots :
            (slot[i].pc = "precheck" /\ slot'[i] # slot[i]) =>
                (slot'[i].is_used \/ slot'[i].pc = "build")]_vars
    /\ [](\A i \in Slots :
            /\ (Ended(slot[i]) /\ PassedPrecheck(slot[i])) =>
                  /\ slot[i].sres.error.msg # "Authorization nonce already used"
                  /\ slot[i].stage \in {"build", "estimate", "send", "wait"}
            /\ "sendRawTransaction" \in slot[i].rpcs =>
                  {"authorizationState", "getTransactionCount", "estimateGas"} \subseteq slot[i].rpcs)

\* the nonce was used when the call began, the authorizationState call failed,
\* and the call went on to the gas estimate, which ended it
UsedNonceFoundByEstimate ==
    \E i \in Slots :
        /\ slot[i].settledBefore
        /\ PassedPrecheck(slot[i])
        /\ Ended(slot[i])
        /\ slot[i].sres.error.msg = "Gas estimation failed: "

\* the transfer of slot s's authorization reverts on the latest state whatever
\* the payer's balance: the window is closed or the nonce is used
TransferMustRevert(s) == ~ TransferSucceeds(Payload(s), authorizationState, chainTime, TRUE)

\* C33: a failed gas estimate ends the call with (false, "Gas estimation
\* failed: ...", no hash) and nothing signed or sent. A call ended at the
\* estimate has no hash, no transaction and no broadcast; the step that ends
\* it leaves the chain (used nonces, mempool, receipts, transaction count)
\* as it was; and an estimate of a transfer that must revert always ends
\* the call this way.
EstimationFailureEndsCall ==
    /\ [](\A i \in Slots :
            (Ended(slot[i]) /\ slot[i].sres.error.msg = "Gas estimation failed: ") =>
                /\ slot[i].stage = "estimate"
                /\ ~ slot[i].sres.success
                /\ slot[i].sres.tx_hash = None
                /\ slot[i].tx = None
                /\ slot[i].sent = 0
                /\ ~ slot[i].broadcast
                /\ "sendRawTransaction" \notin slot[i].rpcs)
    /\ [][\A i \in Slots :
            (slot[i].pc = "estimate" /\ slot'[i] # slot[i]) =>
                /\ UNCHANGED chainVars
                /\ TransferMustRevert(slot[i]) =>
                      /\ Ended(slot'[i])
                      /\ slot'[i].sres = SettleResult(FALSE, Error("Gas estimation failed: ", ""), None)]_vars

\* a call ended by a failed gas estimate while the token has no used nonce and
\* the node holds and has mined nothing
EstimateFailedOnUntouchedChain ==
    \E i \in Slots :
        /\ Ended(slot[i])
        /\ slot[i].sres.error.msg = "Gas estimation failed: "
        /\ authorizationState = {}
        /\ mempool = {}
        /\ receipts = {}

\* C34: with a cap configured, a current gas price strictly above the cap
\* ends the call with success false, no hash and nothing broadcast; the
\* price is read only with a cap set and after the gas estimate succeeded,
\* before anything is signed or sent; a price at or below the cap does not
\* end the call, which goes on to the broadcast.
GasPriceCapGuards ==
    \A i \in Slots :
        LET s == slot[i]
            read == "gasPrice" \in s.rpcs
            refused == Ended(s) /\ s.sres.error.msg = "Gas price too high: "
        IN  /\ read <=> s.current_gas_price # 0
            /\ read => (s.cap # 0 /\ "estimateGas" \in s.rpcs)
            /\ (s.cap = 0 /\ Ended(s)) => s.stage # "estimate" \/ s.sres.error.msg = "Gas estimation failed: "
            /\ refused <=> (read /\ s.current_gas_price > s.cap)
            /\ refused =>
                  /\ s.stage = "estimate"
                  /\ ~ s.sres.success
                  /\ s.sres.tx_hash = None
                  /\ s.tx = None
                  /\ s.sent = 0
                  /\ "sendRawTransaction" \notin s.rpcs
            /\ (read /\ s.current_gas_price <= s.cap) =>
                  (s.pc = "send" \/ "sendRawTransaction" \in s.rpcs)

\* under one cap, a call refused for a price above it and a call broadcast at
\* a price equal to it
RefusedAboveCapSentAtCap ==
    \E i, j \in Slots :
        /\ Ended(slot[i])
        /\ slot[i].sres.error.msg = "Gas price too high: "
        /\ slot[i].current_gas_price > slot[i].cap
        /\ slot[j].cap # 0
        /\ slot[j].current_gas_price = slot[j].cap
        /\ slot[j].sent = 1

\* the receipts of the transaction slot s's call returned the hash of
ReceiptStatuses(s) == {r.status : r \in {x \in receipts : x.tx = s.sres.tx_hash}}

\* slot s's call was made with wait_for_confirmation true, broadcast a
\* transaction and has returned
WaitedCallEnded(s) == s.wait /\ s.sent >= 1 /\ Ended(s)

\* C35: with wait_for_confirmation true, a call that broadcast returns
\* success only when a receipt of its transaction with status 1 exists;
\* "Transaction reverted" only when a receipt with status 0 exists; and
\* otherwise "Transaction confirmation timeout: ..."; all three carry the
\* hash of the transaction that was broadcast.
ConfirmedOutcomes ==
    \A i \in Slots :
        WaitedCallEnded(slot[i]) =>
            LET res == slot[i].sres
            IN  /\ slot[i].stage = "wait"
                /\ res.tx_hash # None
                /\ res.tx_hash = slot[i].tx
                /\ res.tx_hash.hdr = slot[i].hdr
                /\ IF res.success
                   THEN res.error = NoError /\ ReceiptStatuses(slot[i]) = {1}
                   ELSE IF res.error.msg = "Transaction reverted"
                   THEN ReceiptStatuses(slot[i]) = {0}
                   ELSE res.error.msg = "Transaction confirmation timeout: "

\* one waited call returned settled, the other returned reverted, each with
\* its transaction's hash
SettledAndRevertedWithHash ==
    \E i, j \in Slots :
        /\ WaitedCallEnded(slot[i]) /\ slot[i].sres.success
        /\ WaitedCallEnded(slot[j]) /\ slot[j].sres.error.msg = "Transaction reverted"
        /\ slot[j].sres.tx_hash # None

\* C36: one call broadcasts at most one transaction. The node has taken at
\* most one transaction from a call, and a call that has broadcast takes no
\* further step but its return: it sends nothing more and adds nothing to
\* the node's pool, whether the transaction reverted, timed out or settled.
AtMostOneBroadcast ==
    /\ [](\A i \in Slots :
            /\ slot[i].sent <= 1
            /\ slot[i].broadcast <=> slot[i].sent = 1
            /\ slot[i].sent = 1 => slot[i].pc \in {"wait", "done"})
    /\ [][\A i \in Slots :
            (slot[i].sent >= 1 /\ slot'[i] # slot[i]) =>
                /\ slot'[i].sent = slot[i].sent
                /\ slot'[i].pc = "done"
                /\ mempool' = mempool]_vars

\* a call whose only transaction reverted has returned, and the node holds
\* no transaction
RevertedCallSentOnce ==
    \E i \in Slots :
        /\ Ended(slot[i])
        /\ slot[i].sres.error.msg = "Transaction reverted"
        /\ slot[i].sent = 1
        /\ mempool = {}

\* the outcomes of a settlement call, by its (success, error, tx_hash)
Rejected(res) ==
    /\ ~ res.success
    /\ res.tx_hash = None
    /\ res.error.msg \in {"Authorization nonce already used", "Gas estimation failed: ",
                          "Gas price too high: ", "Exact scheme settlement error: "}
Settled(res) == res.success /\ res.error = NoError /\ res.tx_hash # None
Reverted(res) == ~ res.success /\ res.error.msg = "Transaction reverted" /\ res.tx_hash # None
Pending(res) ==
    /\ ~ res.success
    /\ res.error.msg = "Transaction confirmation timeout: "
    /\ res.tx_hash # None
OutcomesOf(res) ==
    {o \in {"rejected", "settled", "reverted", "pending"} :
        \/ o = "rejected" /\ Rejected(res)
        \/ o = "settled" /\ Settled(res)
        \/ o = "reverted" /\ Reverted(res)
        \/ o = "pending" /\ Pending(res)}

\* C37: when every RPC request returns or fails (and the wait for the receipt
\* ends at its timeout at the latest), every settlement call returns, and
\* what it returns is exactly one of rejected, settled, reverted and pending.
EveryCallReturnsOneOutcome ==
    /\ \A i \in Slots : InProgress(slot[i]) ~> Ended(slot[i])
    /\ [](\A i \in Slots : Ended(slot[i]) => Cardinality(OutcomesOf(slot[i].sres)) = 1)

\* a call returned pending, and its transaction was mined with status 1: the
\* authorization is consumed although the caller was told success false
PendingCallMinedAfterwards ==
    \E i \in Slots :
        /\ Ended(slot[i])
        /\ Pending(slot[i].sres)
        /\ [tx |-> slot[i].sres.tx_hash, status |-> 1] \in receipts
        /\ AuthKey(Payload(slot[i])) \in authorizationState

HandlerRaised(s) == s.mres # None /\ s.mres.served /\ s.mres.status = 500

SucceededTransfers(h) ==
    {r \in receipts : r.status = 1 /\ AuthKey(HeaderOf(r.tx.hdr).payload) = AuthKey(HeaderOf(h).payload)}

\* C40: with wait_for_confirmation false, the call returns (true, none,
\* hash) in the step in which the node accepts the broadcast: the
\* transaction is then in the node's pool with no receipt, and the call
\* never asks for one; whatever the calls returned, at most one transfer
\* per authorization is mined with status 1.
UnconfirmedSuccess ==
    /\ [](\A i \in Slots :
            /\ (~ slot[i].wait /\ slot[i].sent >= 1) =>
                  /\ Ended(slot[i])
                  /\ slot[i].stage = "send"
                  /\ slot[i].sres = SettleResult(TRUE, NoError, slot[i].tx)
                  /\ slot[i].tx # None
                  /\ "waitForReceipt" \notin slot[i].rpcs
            /\ slot[i].hdr # "none" => Cardinality(SucceededTransfers(slot[i].hdr)) <= 1)
    /\ [][\A i \in Slots :
            (slot[i].pc = "send" /\ ~ slot[i].wait /\ slot'[i].sent = 1) =>
                /\ slot'[i].sres.success
                /\ slot'[i].sres.tx_hash \in mempool'
                /\ \A r \in receipts' : r.tx # slot'[i].sres.tx_hash]_vars

\* two calls without confirmation for one authorization both returned
\* success, with different transactions
BothUnconfirmedCallsSucceed ==
    \E i, j \in Slots :
        /\ i # j
        /\ ~ slot[i].wait /\ ~ slot[j].wait
        /\ Ended(slot[i]) /\ Ended(slot[j])
        /\ slot[i].sres.success /\ slot[j].sres.success
        /\ SameAuthorization(slot[i], slot[j])
        /\ slot[i].sres.tx_hash # slot[j].sres.tx_hash

=============================================================================
